---------------------------- MODULE Spec2Model ----------------------------
(***************************************************************************)
(* A model of DpdkChassisManager                                           *)
(* (stratum/hal/lib/tdi/dpdk/dpdk_chassis_manager.cc): the seven maps of   *)
(* the live generation, the initialized flag, and the operations           *)
(* PushChassisConfig, VerifyChassisConfig, ReplayPortsConfig and Shutdown, *)
(* run against a TdiSdeInterface whose calls may fail.                     *)
(*                                                                         *)
(* In the specifications Spec, SpecSpeed, SpecParam, SpecLayout,          *)
(* SpecNodes, SpecNames, SpecDefect, SpecPush and SpecQuery every          *)
(* operation is one atomic step (the callers hold chassis_lock across      *)
(* Push and Verify; Replay and Shutdown take it                            *)
(* themselves).  The step records what the caller and the backend saw of   *)
(* it in `last`; the step Return is the caller taking that result, after   *)
(* which the next operation may start.  SpecLock runs the operations as    *)
(* threads whose steps interleave, with chassis_lock explicit.             *)
(***************************************************************************)
EXTENDS Integers, Sequences, FiniteSets, TLC

VARIABLES
  mgr,    \* the manager: initialized_ and the seven maps
  sde,    \* the backend behind TdiSdeInterface: which ports exist / are enabled
  last,   \* the operation that has just run: input, status, backend calls, pre-state
  gnmi_event_writer_,  \* the registered event writer, or nullptr
  hist,   \* history: what has happened to the manager since it was constructed
  chassis_lock,        \* the lock: the thread holding it as writer, those holding it as readers
  thr     \* the threads of SpecLock: where each one is in its operation

vars == <<mgr, sde, last, gnmi_event_writer_, hist, chassis_lock, thr>>

-----------------------------------------------------------------------------
(* Bounds of the model *)

\* ports per ChassisConfig, and the range 1..MaxPorts of port ids and port numbers
MaxPorts == 2
\* nodes per ChassisConfig, and the range 1..MaxNodes of node ids
MaxNodes == 2
\* backend calls that answer negatively within one operation
MaxFail == 2

-----------------------------------------------------------------------------
(* Enumerations and constants of the program *)

ADMIN_STATE_UNKNOWN == "ADMIN_STATE_UNKNOWN"
ADMIN_STATE_ENABLED == "ADMIN_STATE_ENABLED"
ADMIN_STATE_DISABLED == "ADMIN_STATE_DISABLED"
ADMIN_STATE_DIAG == "ADMIN_STATE_DIAG"

TRI_STATE_UNKNOWN == "TRI_STATE_UNKNOWN"
TRI_STATE_TRUE == "TRI_STATE_TRUE"
TRI_STATE_FALSE == "TRI_STATE_FALSE"

LOOPBACK_STATE_UNKNOWN == "LOOPBACK_STATE_UNKNOWN"
LOOPBACK_STATE_NONE == "LOOPBACK_STATE_NONE"
LOOPBACK_STATE_MAC == "LOOPBACK_STATE_MAC"

FEC_MODE_UNKNOWN == "FEC_MODE_UNKNOWN"
FEC_MODE_ON == "FEC_MODE_ON"
FEC_MODE_OFF == "FEC_MODE_OFF"

PORT_STATE_UNKNOWN == "PORT_STATE_UNKNOWN"
PORT_STATE_UP == "PORT_STATE_UP"
PORT_STATE_DOWN == "PORT_STATE_DOWN"

PORT_TYPE_NONE == "PORT_TYPE_NONE"
PORT_TYPE_TAP == "PORT_TYPE_TAP"
PORT_TYPE_LINK == "PORT_TYPE_LINK"

DIRECTION_NONE == "DIRECTION_NONE"
kDefaultPortPacketDirection == "DIRECTION_HOST"
kDefaultPipelineName == "pipe"
kDefaultMempoolName == "MEMPOOL"

kDefaultMtu == 1500
kSdkPortControlBase == 256
\* kCpuPortId is 0xFFFFFFFD; as a 32-bit integer that is -3
kCpuPortId == -3

PLT_UNKNOWN == "PLT_UNKNOWN"
PLT_P4_SOFT_SWITCH == "PLT_P4_SOFT_SWITCH"
PLT_GENERIC_BAREFOOT_TOFINO == "PLT_GENERIC_BAREFOOT_TOFINO"
PLT_GENERIC_BAREFOOT_TOFINO2 == "PLT_GENERIC_BAREFOOT_TOFINO2"
PLT_GENERIC_TRIDENT2 == "PLT_GENERIC_TRIDENT2"

\* status codes
OK == "OK"
ERR_INVALID_PARAM == "ERR_INVALID_PARAM"
ERR_UNIMPLEMENTED == "ERR_UNIMPLEMENTED"
ERR_INTERNAL == "ERR_INTERNAL"
ERR_NOT_INITIALIZED == "ERR_NOT_INITIALIZED"
ERR_REBOOT_REQUIRED == "ERR_REBOOT_REQUIRED"
\* the status a failing TdiSdeInterface call returns, propagated by RETURN_IF_ERROR
ERR_SDE == "ERR_SDE"
\* RET_CHECK(cond): the status returned when cond is false
RET_CHECK_STATUS == ERR_INVALID_PARAM

\* absl::UnixEpoch()
UnixEpoch == 0

-----------------------------------------------------------------------------
(* std::map, absl::optional *)

\* absl::optional<T>: {} is nullopt, {v} holds v
NullOpt == {}
Some(v) == {v}
HasValue(o) == o # {}
Value(o) == CHOOSE v \in o : TRUE

\* std::map<K, V>: a function; EmptyMap is the map without entries
EmptyMap == << >>
Count(m, k) == IF k \in DOMAIN m THEN 1 ELSE 0
MapPut(m, k, v) == [y \in (DOMAIN m) \cup {k} |-> IF y = k THEN v ELSE m[y]]
\* m[n][p] = v on a map of maps (operator[] creates m[n] when absent)
MapPut2(m, n, p, v) ==
  MapPut(m, n, MapPut(IF n \in DOMAIN m THEN m[n] ELSE EmptyMap, p, v))
\* m[k], which inserts the default value d when k is absent
MapTouch(m, k, d) == IF k \in DOMAIN m THEN m ELSE MapPut(m, k, d)
\* the (n, p) pairs a map of maps holds
Keys2(m) == UNION {{<<n, p>> : p \in DOMAIN m[n]} : n \in DOMAIN m}

Max(S) == IF S = {} THEN 0 ELSE CHOOSE a \in S : \A b \in S : b <= a
Min(S) == CHOOSE a \in S : \A b \in S : a <= b
\* the elements of a set of integers in increasing order (std::map iteration order)
RECURSIVE Sorted(_)
Sorted(S) == IF S = {} THEN << >> ELSE <<Min(S)>> \o Sorted(S \ {Min(S)})

-----------------------------------------------------------------------------
(* TdiSdeInterface: the backend *)

\* GetPortIdFromPortKey(unit, port_key): the SDK port id behind a PortKey
\* <<slot, port, channel>>; the backend derives it from port and channel.
SdkPortOf(unit, port_key) == port_key[2] + port_key[3]

\* What a successful backend call does to the backend's ports.
SdeApply(s, op, unit, port) ==
  CASE op = "AddPort" ->
         [ports |-> s.ports \cup {<<unit, port>>}, enabled |-> s.enabled \ {<<unit, port>>}]
    [] op = "DeletePort" ->
         [ports |-> s.ports \ {<<unit, port>>}, enabled |-> s.enabled \ {<<unit, port>>}]
    [] op = "DisablePort" ->
         [ports |-> s.ports, enabled |-> s.enabled \ {<<unit, port>>}]
    [] op = "EnablePort" ->
         [ports |-> s.ports, enabled |-> s.enabled \cup {<<unit, port>>}]
    [] OTHER -> s

\* An execution context: the backend calls issued so far in this operation and
\* the backend's state.  F is the set of positions in the call sequence at which
\* the backend answers negatively (an error status; false for IsValidPort).
Call(x, F, op, unit, port, args) ==
  LET ok == (Len(x.calls) + 1) \notin F
  IN [calls |-> Append(x.calls, [op |-> op, unit |-> unit, port |-> port,
                                 args |-> args, ok |-> ok]),
      sde |-> IF ok THEN SdeApply(x.sde, op, unit, port) ELSE x.sde]

\* whether the call issued last succeeded
LastOk(x) == x.calls[Len(x.calls)].ok

\* a call that is issued only when cond holds, and whether it was issued and failed
CallIf(cond, x, F, op, unit, port, args) ==
  IF cond THEN Call(x, F, op, unit, port, args) ELSE x
Failed(cond, x) == cond /\ ~LastOk(x)

NoArgs == [none |-> TRUE]

\* the calls that change the backend
MutatingOps == {"AddPort", "DeletePort", "DisablePort", "EnablePort",
                "SetPortAutonegPolicy", "SetPortLoopbackMode", "SetPortMtu"}

-----------------------------------------------------------------------------
(* PortConfig and the port helpers.  A helper's result is Ret(x, config, status): *)
(* the execution context after it, the PortConfig it leaves in *config, and its   *)
(* status.  The code of a helper after a call is an operator that takes the       *)
(* context after that call.                                                       *)

\* PortConfig(): a default-constructed PortConfig
NewPortConfig ==
  [admin_state |-> ADMIN_STATE_UNKNOWN, speed_bps |-> NullOpt, mtu |-> NullOpt,
   autoneg |-> NullOpt, fec_mode |-> NullOpt, loopback_mode |-> NullOpt,
   port_type |-> PORT_TYPE_NONE, packet_dir |-> DIRECTION_NONE,
   pipeline_name |-> "", mempool_name |-> "", control_port |-> ""]

Ret(x, config, status) == [x |-> x, config |-> config, status |-> status]

\* PortConfigParams handed to AddPort
SdeParams(config, port_type, packet_dir) ==
  [port_type |-> port_type,
   packet_dir |-> packet_dir,
   mtu |-> Value(config.mtu),
   pipeline_name |-> IF config.pipeline_name # "" THEN config.pipeline_name
                     ELSE kDefaultPipelineName,
   mempool_name |-> IF config.mempool_name # "" THEN config.mempool_name
                    ELSE kDefaultMempoolName]

AddPortArgs(speed_bps, params, fec_mode) ==
  [speed_bps |-> speed_bps, params |-> params, fec_mode |-> fec_mode]

\* the fields AddPortHelper derives from the desired port before the backend call
AddPortFill(c0, singleton_port) ==
  [c0 EXCEPT
     !.speed_bps = Some(singleton_port.speed_bps),
     !.admin_state = ADMIN_STATE_DISABLED,
     !.fec_mode = Some(singleton_port.config_params.fec_mode),
     !.port_type = singleton_port.config_params.port_type,
     !.pipeline_name = IF singleton_port.config_params.pipeline_name # ""
                       THEN c0.pipeline_name ELSE kDefaultPipelineName,
     !.mempool_name = IF c0.mempool_name # "" THEN c0.mempool_name
                      ELSE kDefaultMempoolName,
     !.mtu = Some(IF singleton_port.config_params.mtu # 0
                  THEN singleton_port.config_params.mtu ELSE kDefaultMtu)]

\* the backend port AddPortHelper creates for the data port
AddPortTarget(port_id, sdk_port_id) == port_id

\* AddPortHelper, the MTU step: config->mtu is already set, else taken from the port
AddPortMtu(c, singleton_port) ==
  IF HasValue(c.mtu) THEN c
  ELSE IF singleton_port.config_params.mtu # 0
  THEN [c EXCEPT !.mtu = Some(singleton_port.config_params.mtu)]
  ELSE c

\* AddPortHelper, the admin state reached at its end
AddPortAdmin(c, singleton_port) ==
  IF singleton_port.config_params.admin_state = ADMIN_STATE_ENABLED
  THEN [c EXCEPT !.admin_state = ADMIN_STATE_ENABLED]
  ELSE c

\* AddPortHelper after SetPortLoopbackMode
AddPortAfterLoopback(x, singleton_port, c) ==
  IF Failed(singleton_port.config_params.loopback_mode # LOOPBACK_STATE_UNKNOWN, x)
  THEN Ret(x, c, ERR_SDE)
  ELSE Ret(x, AddPortAdmin([c EXCEPT !.loopback_mode =
                              Some(singleton_port.config_params.loopback_mode)],
                           singleton_port), OK)

\* AddPortHelper after SetPortAutonegPolicy
AddPortAfterAutoneg(x, F, unit, sdk_port_id, singleton_port, c) ==
  IF Failed(singleton_port.config_params.autoneg # TRI_STATE_UNKNOWN, x)
  THEN Ret(x, c, ERR_SDE)
  ELSE AddPortAfterLoopback(
         CallIf(singleton_port.config_params.loopback_mode # LOOPBACK_STATE_UNKNOWN,
                x, F, "SetPortLoopbackMode", unit, sdk_port_id,
                [value |-> singleton_port.config_params.loopback_mode]),
         singleton_port,
         [c EXCEPT !.autoneg = Some(singleton_port.config_params.autoneg)])

\* AddPortHelper after the control port's AddPort
AddPortAfterControl(x, F, unit, sdk_port_id, singleton_port, c) ==
  IF Failed(c.control_port # "", x) THEN Ret(x, c, ERR_SDE)
  ELSE AddPortAfterAutoneg(
         CallIf(singleton_port.config_params.autoneg # TRI_STATE_UNKNOWN,
                x, F, "SetPortAutonegPolicy", unit, sdk_port_id,
                [value |-> singleton_port.config_params.autoneg]),
         F, unit, sdk_port_id, singleton_port, AddPortMtu(c, singleton_port))

\* AddPortHelper after the data port's AddPort
AddPortAfterAdd(x, F, unit, sdk_port_id, singleton_port, c) ==
  IF ~LastOk(x) THEN Ret(x, c, ERR_SDE)
  ELSE AddPortAfterControl(
         CallIf(c.control_port # "", x, F, "AddPort", unit,
                kSdkPortControlBase + sdk_port_id,
                AddPortArgs(singleton_port.speed_bps,
                            SdeParams(c, PORT_TYPE_TAP, kDefaultPortPacketDirection),
                            singleton_port.config_params.fec_mode)),
         F, unit, sdk_port_id, singleton_port, c)

\* AddPortHelper from the point where the admin state has been accepted
AddPortCreate(x, F, unit, sdk_port_id, singleton_port, c) ==
  AddPortAfterAdd(
    Call(x, F, "AddPort", unit, AddPortTarget(singleton_port.id, sdk_port_id),
         AddPortArgs(singleton_port.speed_bps,
                     SdeParams(c, singleton_port.config_params.port_type,
                               IF c.packet_dir # DIRECTION_NONE THEN c.packet_dir
                               ELSE kDefaultPortPacketDirection),
                     singleton_port.config_params.fec_mode)),
    F, unit, sdk_port_id, singleton_port, c)

\* AddPortHelper, were the desired admin state not looked at before the create
AddPortHelperAnyAdmin(x, F, node_id, unit, sdk_port_id, singleton_port, config) ==
  AddPortCreate(x, F, unit, sdk_port_id, singleton_port,
                AddPortFill([config EXCEPT !.admin_state = ADMIN_STATE_UNKNOWN],
                            singleton_port))

\* AddPortHelper(node_id, unit, sdk_port_id, singleton_port, config): config is
\* read (pipeline_name, mempool_name, packet_dir, control_port) and written.
AddPortHelper(x, F, node_id, unit, sdk_port_id, singleton_port, config) ==
  IF singleton_port.config_params.admin_state = ADMIN_STATE_UNKNOWN
  THEN Ret(x, [config EXCEPT !.admin_state = ADMIN_STATE_UNKNOWN], ERR_INVALID_PARAM)
  ELSE IF singleton_port.config_params.admin_state = ADMIN_STATE_DIAG
  THEN Ret(x, [config EXCEPT !.admin_state = ADMIN_STATE_UNKNOWN], ERR_UNIMPLEMENTED)
  ELSE AddPortCreate(x, F, unit, sdk_port_id, singleton_port,
                     AddPortFill([config EXCEPT !.admin_state = ADMIN_STATE_UNKNOWN],
                                 singleton_port))

\* BuildSingletonPort(slot, port, channel, speed_bps) and the fields the rollback
\* of UpdatePortHelper sets on it from the old config
RollbackSingletonPort(singleton_port, config_old) ==
  [id |-> 0, name |-> "", slot |-> singleton_port.slot, port |-> singleton_port.port,
   channel |-> singleton_port.channel, node |-> 0,
   speed_bps |-> Value(config_old.speed_bps),
   config_params |->
     [admin_state |-> config_old.admin_state,
      autoneg |-> IF HasValue(config_old.autoneg) THEN Value(config_old.autoneg)
                  ELSE TRI_STATE_UNKNOWN,
      mtu |-> IF HasValue(config_old.mtu) THEN Value(config_old.mtu) ELSE 0,
      fec_mode |-> IF HasValue(config_old.fec_mode) THEN Value(config_old.fec_mode)
                   ELSE FEC_MODE_UNKNOWN,
      loopback_mode |-> LOOPBACK_STATE_UNKNOWN,
      port_type |-> PORT_TYPE_NONE,
      pipeline_name |-> ""]]

\* the status UpdatePortHelper returns when the port could not be added with the
\* new speed, whatever the rollback did
RollbackStatus(rb) == [rb EXCEPT !.status = ERR_INVALID_PARAM]

\* UpdatePortHelper, speed change, after AddPortHelper with the new port: on
\* failure add again from the old config and report the error
UpdateSpeedAfterAdd(r, F, node_id, unit, sdk_port_id, singleton_port, config_old) ==
  IF r.status = OK THEN r
  ELSE RollbackStatus(
         AddPortHelper(r.x, F, node_id, unit, sdk_port_id,
                       RollbackSingletonPort(singleton_port, config_old), r.config))

\* UpdatePortHelper, speed change, after DeletePort
UpdateSpeedAfterDelete(x, F, node_id, unit, sdk_port_id, singleton_port, config_old) ==
  IF ~LastOk(x) THEN Ret(x, config_old, ERR_SDE)
  ELSE UpdateSpeedAfterAdd(
         AddPortHelper(x, F, node_id, unit, sdk_port_id, singleton_port, config_old),
         F, node_id, unit, sdk_port_id, singleton_port, config_old)

\* UpdatePortHelper, speed change, after DisablePort
UpdateSpeedAfterDisable(x, F, node_id, unit, sdk_port_id, singleton_port, config_old) ==
  IF ~LastOk(x) THEN Ret(x, config_old, ERR_SDE)
  ELSE UpdateSpeedAfterDelete(Call(x, F, "DeletePort", unit, sdk_port_id, NoArgs),
                              F, node_id, unit, sdk_port_id, singleton_port, config_old)

\* the speed-change path of UpdatePortHelper: disable, delete, add
UpdateSpeed(x, F, node_id, unit, sdk_port_id, singleton_port, config_old) ==
  UpdateSpeedAfterDisable(Call(x, F, "DisablePort", unit, sdk_port_id, NoArgs),
                          F, node_id, unit, sdk_port_id, singleton_port, config_old)

\* need_disable, were it set for every port that is not disabled
NeedDisableWheneverEnabled(admin_state, old_admin_state, config_changed) ==
  old_admin_state # ADMIN_STATE_DISABLED

\* need_disable of UpdatePortHelper
NeedDisable(admin_state, old_admin_state, config_changed) ==
  IF admin_state = ADMIN_STATE_DISABLED
  THEN old_admin_state # ADMIN_STATE_DISABLED
  ELSE IF admin_state = ADMIN_STATE_ENABLED
  THEN config_changed /\ old_admin_state # ADMIN_STATE_DISABLED
  ELSE FALSE

\* need_enable of UpdatePortHelper
NeedEnable(admin_state, old_admin_state, config_changed, need_disable) ==
  IF admin_state = ADMIN_STATE_ENABLED
  THEN need_disable \/ old_admin_state = ADMIN_STATE_DISABLED
  ELSE FALSE

\* the admin state UpdatePortHelper records after the disable and enable steps
UpdateAdminState(c, need_disable, need_enable) ==
  IF need_enable THEN [c EXCEPT !.admin_state = ADMIN_STATE_ENABLED]
  ELSE IF need_disable THEN [c EXCEPT !.admin_state = ADMIN_STATE_DISABLED]
  ELSE c

\* UpdatePortHelper after the DisablePort of the admin state transition
UpdateAfterDisable(x, c, need_disable, need_enable) ==
  IF Failed(need_disable, x) THEN Ret(x, c, ERR_SDE)
  ELSE Ret(x, UpdateAdminState(c, need_disable, need_enable), OK)

\* the end of UpdatePortHelper: the admin state transition
UpdateAdminWith(x, F, unit, sdk_port_id, c, need_disable, need_enable) ==
  UpdateAfterDisable(CallIf(need_disable, x, F, "DisablePort", unit, sdk_port_id, NoArgs),
                     c, need_disable, need_enable)

UpdateAdminNeeds(x, F, unit, sdk_port_id, admin_state, old_admin_state, c, config_changed, need_disable) ==
  UpdateAdminWith(x, F, unit, sdk_port_id, c, need_disable,
                  NeedEnable(admin_state, old_admin_state, config_changed, need_disable))

UpdateAdmin(x, F, unit, sdk_port_id, singleton_port, config_old, c, config_changed) ==
  UpdateAdminNeeds(x, F, unit, sdk_port_id, singleton_port.config_params.admin_state,
                   config_old.admin_state, c, config_changed,
                   NeedDisable(singleton_port.config_params.admin_state,
                               config_old.admin_state, config_changed))

\* whether UpdatePortHelper sees the MTU, the autoneg policy, the loopback mode changed
MtuChanged(singleton_port, config_old) ==
  Some(singleton_port.config_params.mtu) # config_old.mtu
AutonegChanged(singleton_port, config_old) ==
  Some(singleton_port.config_params.autoneg) # config_old.autoneg
LoopbackChanged(singleton_port, config_old) ==
  Some(singleton_port.config_params.loopback_mode) # config_old.loopback_mode

\* UpdatePortHelper after SetPortLoopbackMode
UpdateAfterLoopback(x, F, unit, sdk_port_id, singleton_port, config_old, c) ==
  IF Failed(LoopbackChanged(singleton_port, config_old), x)
  THEN Ret(x, [c EXCEPT !.loopback_mode = NullOpt], ERR_SDE)
  ELSE UpdateAdmin(x, F, unit, sdk_port_id, singleton_port, config_old,
                   IF LoopbackChanged(singleton_port, config_old)
                   THEN [c EXCEPT !.loopback_mode =
                           Some(singleton_port.config_params.loopback_mode)]
                   ELSE c,
                   MtuChanged(singleton_port, config_old)
                   \/ AutonegChanged(singleton_port, config_old)
                   \/ LoopbackChanged(singleton_port, config_old))

\* UpdatePortHelper after SetPortAutonegPolicy
UpdateAfterAutoneg(x, F, unit, sdk_port_id, singleton_port, config_old, c) ==
  IF Failed(AutonegChanged(singleton_port, config_old), x)
  THEN Ret(x, [c EXCEPT !.autoneg = NullOpt], ERR_SDE)
  ELSE UpdateAfterLoopback(
         CallIf(LoopbackChanged(singleton_port, config_old), x, F,
                "SetPortLoopbackMode", unit, sdk_port_id,
                [value |-> singleton_port.config_params.loopback_mode]),
         F, unit, sdk_port_id, singleton_port, config_old,
         IF AutonegChanged(singleton_port, config_old)
         THEN [c EXCEPT !.autoneg = Some(singleton_port.config_params.autoneg)]
         ELSE c)

\* the field-level deltas of UpdatePortHelper: MTU, autoneg, loopback
UpdateFields(x, F, unit, sdk_port_id, singleton_port, config_old) ==
  UpdateAfterAutoneg(
    CallIf(AutonegChanged(singleton_port, config_old), x, F,
           "SetPortAutonegPolicy", unit, sdk_port_id,
           [value |-> singleton_port.config_params.autoneg]),
    F, unit, sdk_port_id, singleton_port, config_old,
    IF MtuChanged(singleton_port, config_old)
    THEN [config_old EXCEPT !.mtu = Some(singleton_port.config_params.mtu)]
    ELSE config_old)

\* the FEC comparison of UpdatePortHelper, were it left out
FecUnchecked(singleton_port, config_old) == FALSE

\* whether UpdatePortHelper sees the speed, the FEC mode changed
SpeedChanged(singleton_port, config_old) ==
  Some(singleton_port.speed_bps) # config_old.speed_bps
FecChanged(singleton_port, config_old) ==
  Some(singleton_port.config_params.fec_mode) # config_old.fec_mode

\* UpdatePortHelper after IsValidPort
UpdateAfterValid(x, F, node_id, unit, sdk_port_id, singleton_port, config_old) ==
  IF ~LastOk(x)
  THEN Ret(x, [config_old EXCEPT !.admin_state = ADMIN_STATE_UNKNOWN,
                                 !.speed_bps = NullOpt, !.fec_mode = NullOpt],
           ERR_INTERNAL)
  ELSE IF SpeedChanged(singleton_port, config_old)
  THEN UpdateSpeed(x, F, node_id, unit, sdk_port_id, singleton_port, config_old)
  ELSE IF FecChanged(singleton_port, config_old)
  THEN Ret(x, config_old, ERR_UNIMPLEMENTED)
  ELSE IF singleton_port.config_params.admin_state = ADMIN_STATE_UNKNOWN
  THEN Ret(x, config_old, ERR_INVALID_PARAM)
  ELSE IF singleton_port.config_params.admin_state = ADMIN_STATE_DIAG
  THEN Ret(x, config_old, ERR_UNIMPLEMENTED)
  ELSE UpdateFields(x, F, unit, sdk_port_id, singleton_port, config_old)

\* UpdatePortHelper(node_id, unit, sdk_port_id, singleton_port, config_old, config);
\* *config starts as a copy of config_old
UpdatePortHelper(x, F, node_id, unit, sdk_port_id, singleton_port, config_old) ==
  UpdateAfterValid(Call(x, F, "IsValidPort", unit, sdk_port_id, NoArgs),
                   F, node_id, unit, sdk_port_id, singleton_port, config_old)

-----------------------------------------------------------------------------
(* The manager *)

\* DpdkChassisManager(): not initialized, all maps empty
NewManager ==
  [initialized_ |-> FALSE,
   unit_to_node_id_ |-> EmptyMap,
   node_id_to_unit_ |-> EmptyMap,
   node_id_to_port_id_to_port_state_ |-> EmptyMap,
   node_id_to_port_id_to_time_last_changed_ |-> EmptyMap,
   node_id_to_port_id_to_port_config_ |-> EmptyMap,
   node_id_to_port_id_to_singleton_port_key_ |-> EmptyMap,
   node_id_to_port_id_to_sdk_port_id_ |-> EmptyMap,
   node_id_to_sdk_port_id_to_port_id_ |-> EmptyMap]

\* PortKey(slot, port, channel)
PortKey(singleton_port) ==
  <<singleton_port.slot, singleton_port.port, singleton_port.channel>>

\* the result of a pass of Push: context, the new maps g, status
Res(x, g, status) == [x |-> x, g |-> g, status |-> status]

\* the result of an operation: the manager and the backend after it, the backend
\* calls it issued, its status (and, for Replay only, each replayed port's status)
Out(m, x, status) ==
  [mgr |-> m, sde |-> x.sde, calls |-> x.calls, status |-> status,
   per_port |-> EmptyMap]

\* Push, pass 1: units in declaration order
PushUnits(g, nodes) ==
  [g EXCEPT
     !.unit_to_node_id_ = [unit \in 0..(Len(nodes) - 1) |-> nodes[unit + 1].id],
     !.node_id_to_unit_ =
        [id \in {nodes[i].id : i \in 1..Len(nodes)} |->
           Max({i \in 1..Len(nodes) : nodes[i].id = id}) - 1]]

\* (pass 2 for one port, were the timestamp not seeded)
PushSeedWithoutTime(g, singleton_port) ==
  [g EXCEPT
     !.node_id_to_port_id_to_port_state_ =
        MapPut2(@, singleton_port.node, singleton_port.id, PORT_STATE_UNKNOWN),
     !.node_id_to_port_id_to_port_config_ =
        MapPut2(@, singleton_port.node, singleton_port.id, NewPortConfig),
     !.node_id_to_port_id_to_singleton_port_key_ =
        MapPut2(@, singleton_port.node, singleton_port.id, PortKey(singleton_port))]

\* Push, pass 2, one port: the default state, timestamp and config, and its PortKey
PushSeed(g, singleton_port) ==
  [g EXCEPT
     !.node_id_to_port_id_to_port_state_ =
        MapPut2(@, singleton_port.node, singleton_port.id, PORT_STATE_UNKNOWN),
     !.node_id_to_port_id_to_time_last_changed_ =
        MapPut2(@, singleton_port.node, singleton_port.id, UnixEpoch),
     !.node_id_to_port_id_to_port_config_ =
        MapPut2(@, singleton_port.node, singleton_port.id, NewPortConfig),
     !.node_id_to_port_id_to_singleton_port_key_ =
        MapPut2(@, singleton_port.node, singleton_port.id, PortKey(singleton_port))]

\* Push, pass 2, one port: the resolved SDK port id, forward and backward
PushSdkPort(g, singleton_port, sdk_port) ==
  [g EXCEPT
     !.node_id_to_port_id_to_sdk_port_id_ =
        MapPut2(@, singleton_port.node, singleton_port.id, sdk_port),
     !.node_id_to_sdk_port_id_to_port_id_ =
        MapPut2(@, singleton_port.node, sdk_port, singleton_port.id)]

\* Push, pass 2: seed the per-port maps and resolve the SDK port ids, stopping at
\* the first unknown node or failed resolution
RECURSIVE PushResolve(_, _, _, _, _)
\* (pass 2 after a resolution, were its failure not returned)
PushResolveAfterUnchecked(x, F, g, ports, i, sdk_port) ==
  PushResolve(x, F, PushSdkPort(g, ports[i], sdk_port), ports, i + 1)

PushResolveAfter(x, F, g, ports, i, sdk_port) ==
  IF ~LastOk(x) THEN Res(x, g, ERR_SDE)
  ELSE PushResolve(x, F, PushSdkPort(g, ports[i], sdk_port), ports, i + 1)

PushResolveOne(x, F, g, ports, i, unit) ==
  PushResolveAfter(
    Call(x, F, "GetPortIdFromPortKey", unit, SdkPortOf(unit, PortKey(ports[i])),
         [port_key |-> PortKey(ports[i])]),
    F, PushSeed(g, ports[i]), ports, i, SdkPortOf(unit, PortKey(ports[i])))

PushResolve(x, F, g, ports, i) ==
  IF i > Len(ports) THEN Res(x, g, OK)
  ELSE IF ports[i].node \notin DOMAIN g.node_id_to_unit_ THEN Res(x, g, ERR_INVALID_PARAM)
  ELSE PushResolveOne(x, F, g, ports, i, g.node_id_to_unit_[ports[i].node])

\* gtl::FindOrNull on the live PortConfig map: {} when (node_id, port_id) is absent
FindConfigOld(m, node_id, port_id) ==
  IF node_id \in DOMAIN m.node_id_to_port_id_to_port_config_
     /\ port_id \in DOMAIN m.node_id_to_port_id_to_port_config_[node_id]
  THEN {m.node_id_to_port_id_to_port_config_[node_id][port_id]}
  ELSE {}

\* Push, pass 3, a port whose previous entry is marked broken, after IsValidPort:
\* delete the port if the backend knows it (the delete's status is ignored), then add
PushBrokenAfterValid(x, F, node_id, unit, sdk_port_id, singleton_port, config) ==
  AddPortHelper(CallIf(LastOk(x), x, F, "DeletePort", unit, sdk_port_id, NoArgs),
                F, node_id, unit, sdk_port_id, singleton_port, config)

PushBroken(x, F, node_id, unit, sdk_port_id, singleton_port, config) ==
  PushBrokenAfterValid(Call(x, F, "IsValidPort", unit, sdk_port_id, NoArgs),
                       F, node_id, unit, sdk_port_id, singleton_port, config)

\* (the classification, were a previous entry marked broken not told apart)
PushClassWithoutBroken(old) ==
  IF old = {} THEN "add"
  ELSE IF ~HasValue(Value(old).speed_bps) THEN "internal"
  ELSE "update"

\* which helper pass 3 runs for a port, given the previous generation's entry
\* old ({} when absent)
PushClass(old) ==
  IF old = {} THEN "add"
  ELSE IF Value(old).admin_state = ADMIN_STATE_UNKNOWN THEN "readd"
  ELSE IF ~HasValue(Value(old).speed_bps) THEN "internal"
  ELSE "update"

\* Push, pass 3, one port: add, re-add or update
PushOneWith(x, F, node_id, unit, sdk_port_id, singleton_port, old, config) ==
  CASE PushClass(old) = "add" ->
         AddPortHelper(x, F, node_id, unit, sdk_port_id, singleton_port, config)
    [] PushClass(old) = "readd" ->
         PushBroken(x, F, node_id, unit, sdk_port_id, singleton_port, config)
    [] PushClass(old) = "internal" -> Ret(x, config, ERR_INTERNAL)
    [] OTHER ->
         UpdatePortHelper(x, F, node_id, unit, sdk_port_id, singleton_port, Value(old))

PushOne(x, F, g, m, singleton_port) ==
  PushOneWith(x, F, singleton_port.node, g.node_id_to_unit_[singleton_port.node],
              g.node_id_to_port_id_to_sdk_port_id_[singleton_port.node][singleton_port.id],
              singleton_port,
              FindConfigOld(m, singleton_port.node, singleton_port.id),
              g.node_id_to_port_id_to_port_config_[singleton_port.node][singleton_port.id])

\* Push, pass 3: diff and apply, port by port, stopping at the first error
RECURSIVE PushApply(_, _, _, _, _, _)
PushApplyAfter(r, F, g, m, ports, i) ==
  IF r.status # OK
  THEN Res(r.x, [g EXCEPT !.node_id_to_port_id_to_port_config_ =
                   MapPut2(@, ports[i].node, ports[i].id, r.config)], r.status)
  ELSE PushApply(r.x, F, [g EXCEPT !.node_id_to_port_id_to_port_config_ =
                            MapPut2(@, ports[i].node, ports[i].id, r.config)],
                 m, ports, i + 1)

PushApply(x, F, g, m, ports, i) ==
  IF i > Len(ports) THEN Res(x, g, OK)
  ELSE PushApplyAfter(PushOne(x, F, g, m, ports[i]), F, g, m, ports, i)

\* the (node_id, port_id) pairs of a map of maps, in iteration order
RECURSIVE PairsFrom(_, _, _)
PairsOf(node_id, port_ids) == [k \in 1..Len(port_ids) |-> <<node_id, port_ids[k]>>]
PairsFrom(m, nodes, i) ==
  IF i > Len(nodes) THEN << >>
  ELSE PairsOf(nodes[i], Sorted(DOMAIN m[nodes[i]])) \o PairsFrom(m, nodes, i + 1)
Pairs(m) == PairsFrom(m, Sorted(DOMAIN m), 1)

\* a cleanup pass that deletes every old port, desired or not
CleanupDeletesAll(g, node_id, port_id) == TRUE

\* whether the cleanup pass deletes the old port (node_id, port_id)
CleanupDeletes(g, node_id, port_id) ==
  ~(Count(g.node_id_to_port_id_to_port_config_, node_id) > 0
    /\ Count(g.node_id_to_port_id_to_port_config_[node_id], port_id) > 0)

\* node_id_to_unit_[node_id] and node_id_to_port_id_to_sdk_port_id_[node_id][port_id]
\* on the live maps: operator[] inserts a default entry where there is none
CleanupTouch(m, node_id, port_id) ==
  [m EXCEPT
     !.node_id_to_unit_ = MapTouch(@, node_id, 0),
     !.node_id_to_port_id_to_sdk_port_id_ =
        MapPut(@, node_id,
               MapTouch(IF node_id \in DOMAIN @ THEN @[node_id] ELSE EmptyMap, port_id, 0))]

\* Push, cleanup: delete the ports of the old config that the new one lacks,
\* stopping at the first failed delete; m is the live state
RECURSIVE PushCleanup(_, _, _, _, _, _)
PushCleanupAfter(x, F, g, m, old_ports, i) ==
  IF ~LastOk(x) THEN [x |-> x, m |-> m, status |-> ERR_SDE]
  ELSE PushCleanup(x, F, g, m, old_ports, i + 1)

PushCleanupOne(x, F, g, m, old_ports, i) ==
  PushCleanupAfter(
    Call(x, F, "DeletePort", m.node_id_to_unit_[old_ports[i][1]],
         m.node_id_to_port_id_to_sdk_port_id_[old_ports[i][1]][old_ports[i][2]], NoArgs),
    F, g, m, old_ports, i)

PushCleanup(x, F, g, m, old_ports, i) ==
  IF i > Len(old_ports) THEN [x |-> x, m |-> m, status |-> OK]
  ELSE IF ~CleanupDeletes(g, old_ports[i][1], old_ports[i][2])
  THEN PushCleanup(x, F, g, m, old_ports, i + 1)
  ELSE PushCleanupOne(x, F, g, CleanupTouch(m, old_ports[i][1], old_ports[i][2]),
                      old_ports, i)

\* the swap at the end of Push: the new maps replace the live ones
PushCommit(m, g) == [g EXCEPT !.initialized_ = TRUE]

\* Push after the cleanup pass, were the swap done whatever the cleanup returned
PushAfterCleanupSwapFirst(r4, g) == Out(PushCommit(r4.m, g), r4.x, r4.status)

\* Push after the cleanup pass
PushAfterCleanup(r4, g) ==
  IF r4.status # OK THEN Out(r4.m, r4.x, r4.status)
  ELSE Out(PushCommit(r4.m, g), r4.x, OK)

\* Push after pass 3
PushAfterApply(m, F, r3) ==
  IF r3.status # OK THEN Out(m, r3.x, r3.status)
  ELSE PushAfterCleanup(
         PushCleanup(r3.x, F, r3.g, m, Pairs(m.node_id_to_port_id_to_port_config_), 1),
         r3.g)

\* Push after pass 2
PushAfterResolve(m, F, config, r2) ==
  IF r2.status # OK THEN Out(m, r2.x, r2.status)
  ELSE PushAfterApply(m, F, PushApply(r2.x, F, r2.g, m, config.singleton_ports, 1))

\* PushChassisConfig(config) on manager m and backend s
PushChassisConfig(m, s, config, F) ==
  PushAfterResolve(m, F, config,
                   PushResolve([calls |-> << >>, sde |-> s], F,
                               PushUnits(NewManager, config.nodes),
                               config.singleton_ports, 1))

-----------------------------------------------------------------------------
(* VerifyChassisConfig *)

\* the platforms VerifyChassisConfig accepts
SupportedPlatforms ==
  {PLT_GENERIC_BAREFOOT_TOFINO, PLT_GENERIC_BAREFOOT_TOFINO2, PLT_P4_SOFT_SWITCH}

\* the structural prerequisites: no trunk ports, no port groups, a node, a platform
VerifyStructure(config) ==
  IF ~(config.trunk_ports_size = 0) THEN RET_CHECK_STATUS
  ELSE IF ~(config.port_groups_size = 0) THEN RET_CHECK_STATUS
  ELSE IF ~(Len(config.nodes) > 0) THEN RET_CHECK_STATUS
  ELSE IF ~(config.has_chassis /\ config.platform # PLT_UNKNOWN) THEN RET_CHECK_STATUS
  ELSE IF config.platform \notin SupportedPlatforms THEN ERR_INVALID_PARAM
  ELSE OK

\* the checks on node i: positive slot and id, id not recorded by an earlier node
VerifyNode(nodes, i) ==
  /\ nodes[i].slot > 0
  /\ nodes[i].id > 0
  /\ \A j \in 1..(i - 1) : nodes[j].id # nodes[i].id

\* the unit each node id gets: its position in the declaration
VerifyUnits(nodes) ==
  [id \in {nodes[i].id : i \in 1..Len(nodes)} |->
     Max({i \in 1..Len(nodes) : nodes[i].id = id}) - 1]

\* the checks on singleton port i, were the ids of a node's ports not compared
VerifySingletonPortAnyId(ports, i, node_id_to_unit) ==
  /\ ports[i].id # kCpuPortId
  /\ ports[i].slot > 0
  /\ ports[i].port > 0
  /\ ports[i].speed_bps > 0
  /\ \A j \in 1..(i - 1) : PortKey(ports[j]) # PortKey(ports[i])
  /\ ports[i].node > 0
  /\ ports[i].node \in DOMAIN node_id_to_unit

\* the checks on singleton port i, given the ports before it
VerifySingletonPort(ports, i, node_id_to_unit) ==
  /\ ports[i].id # kCpuPortId
  /\ ports[i].slot > 0
  /\ ports[i].port > 0
  /\ ports[i].speed_bps > 0
  /\ \A j \in 1..(i - 1) : PortKey(ports[j]) # PortKey(ports[i])
  /\ ports[i].node > 0
  /\ ports[i].node \in DOMAIN node_id_to_unit
  /\ \A j \in 1..(i - 1) : ~(ports[j].node = ports[i].node /\ ports[j].id = ports[i].id)

\* the existence check: record every PortKey and resolve it, stopping at the
\* first failure
RECURSIVE VerifyResolve(_, _, _, _, _, _)
VerifyResolveAfter(x, F, keys, node_id_to_unit, ports, i) ==
  IF ~LastOk(x) THEN Res(x, keys, ERR_SDE)
  ELSE VerifyResolve(x, F, keys, node_id_to_unit, ports, i + 1)

VerifyResolveOne(x, F, keys, node_id_to_unit, ports, i) ==
  IF ports[i].node \notin DOMAIN node_id_to_unit THEN Res(x, keys, RET_CHECK_STATUS)
  ELSE VerifyResolveAfter(
         Call(x, F, "GetPortIdFromPortKey", node_id_to_unit[ports[i].node],
              SdkPortOf(node_id_to_unit[ports[i].node], PortKey(ports[i])),
              [port_key |-> PortKey(ports[i])]),
         F, keys, node_id_to_unit, ports, i)

VerifyResolve(x, F, keys, node_id_to_unit, ports, i) ==
  IF i > Len(ports) THEN Res(x, keys, OK)
  ELSE VerifyResolveOne(x, F, MapPut2(keys, ports[i].node, ports[i].id, PortKey(ports[i])),
                        node_id_to_unit, ports, i)

\* the layout comparison, were only the PortKey maps compared
VerifyLayoutChangedKeysOnly(m, keys, node_id_to_unit) ==
  keys # m.node_id_to_port_id_to_singleton_port_key_

\* the layout comparison, were only the unit maps compared
VerifyLayoutChangedUnitsOnly(m, keys, node_id_to_unit) ==
  node_id_to_unit # m.node_id_to_unit_

\* whether the layout of the config differs from the live one
VerifyLayoutChanged(m, keys, node_id_to_unit) ==
  \/ keys # m.node_id_to_port_id_to_singleton_port_key_
  \/ node_id_to_unit # m.node_id_to_unit_

\* Verify after the existence check, were it to store the units it computed
VerifyAfterResolveStoresUnits(m, r, node_id_to_unit) ==
  IF r.status # OK THEN Out(m, r.x, r.status)
  ELSE IF m.initialized_ /\ VerifyLayoutChanged(m, r.g, node_id_to_unit)
  THEN Out(m, r.x, ERR_REBOOT_REQUIRED)
  ELSE Out([m EXCEPT !.node_id_to_unit_ = node_id_to_unit], r.x, OK)

\* Verify after the existence check: the reboot-required detection
VerifyAfterResolve(m, r, node_id_to_unit) ==
  IF r.status # OK THEN Out(m, r.x, r.status)
  ELSE IF m.initialized_ /\ VerifyLayoutChanged(m, r.g, node_id_to_unit)
  THEN Out(m, r.x, ERR_REBOOT_REQUIRED)
  ELSE Out(m, r.x, OK)

\* Verify from the node checks on, with the units of the config's nodes
VerifyWithUnits(m, x0, config, F, node_id_to_unit) ==
  IF ~(\A i \in 1..Len(config.nodes) : VerifyNode(config.nodes, i))
  THEN Out(m, x0, RET_CHECK_STATUS)
  ELSE IF ~(\A i \in 1..Len(config.singleton_ports) :
              VerifySingletonPort(config.singleton_ports, i, node_id_to_unit))
  THEN Out(m, x0, RET_CHECK_STATUS)
  ELSE VerifyAfterResolve(
         m, VerifyResolve(x0, F, EmptyMap, node_id_to_unit, config.singleton_ports, 1),
         node_id_to_unit)

\* VerifyChassisConfig(config) on manager m and backend s
VerifyChassisConfig(m, s, config, F) ==
  IF VerifyStructure(config) # OK
  THEN Out(m, [calls |-> << >>, sde |-> s], VerifyStructure(config))
  ELSE VerifyWithUnits(m, [calls |-> << >>, sde |-> s], config, F,
                       VerifyUnits(config.nodes))

-----------------------------------------------------------------------------
(* Lookups *)

Val(status, value) == [status |-> status, value |-> value]

\* GetUnitFromNodeId(node_id)
GetUnitFromNodeId(m, node_id) ==
  IF ~m.initialized_ THEN Val(ERR_NOT_INITIALIZED, 0)
  ELSE IF node_id \notin DOMAIN m.node_id_to_unit_ THEN Val(RET_CHECK_STATUS, 0)
  ELSE Val(OK, m.node_id_to_unit_[node_id])

\* GetSdkPortId(node_id, port_id)
GetSdkPortId(m, node_id, port_id) ==
  IF ~m.initialized_ THEN Val(ERR_NOT_INITIALIZED, 0)
  ELSE IF node_id \notin DOMAIN m.node_id_to_port_id_to_sdk_port_id_
  THEN Val(RET_CHECK_STATUS, 0)
  ELSE IF port_id \notin DOMAIN m.node_id_to_port_id_to_sdk_port_id_[node_id]
  THEN Val(RET_CHECK_STATUS, 0)
  ELSE Val(OK, m.node_id_to_port_id_to_sdk_port_id_[node_id][port_id])

-----------------------------------------------------------------------------
(* Queries.  A query's result is Ans(m, x, status, value): the manager and the *)
(* execution context after it, its status and, when the status is OK, the      *)
(* value it returns.                                                           *)

kDummyMacAddress == "kDummyMacAddress"
TRUNK_MEMBER_BLOCK_STATE_UNKNOWN == "TRUNK_MEMBER_BLOCK_STATE_UNKNOWN"
HEALTH_STATE_UNKNOWN == "HEALTH_STATE_UNKNOWN"

\* the request kinds of DataRequest::Request; REQUEST_NOT_SET stands for the
\* kinds GetPortData has no case for
RequestKinds ==
  {"oper_status", "admin_status", "mac_address", "port_speed",
   "negotiated_port_speed", "lacp_router_mac", "port_counters",
   "autoneg_status", "front_panel_port_info", "fec_status", "loopback_status",
   "sdn_port_id", "forwarding_viability", "health_indicator", "REQUEST_NOT_SET"}

Ans(m, x, status, value) ==
  [mgr |-> m, sde |-> x.sde, calls |-> x.calls, status |-> status, value |-> value]
\* the execution context a result was produced in
Ctx(r) == [calls |-> r.calls, sde |-> r.sde]
\* a Val, as the result of a query that issues no backend call
Lookup(m, x, v) ==
  Ans(m, x, v.status, IF v.status = OK THEN Some(v.value) ELSE NullOpt)

\* GetPortConfig(node_id, port_id)
GetPortConfig(m, node_id, port_id) ==
  IF node_id \notin DOMAIN m.node_id_to_port_id_to_port_config_
  THEN Val(RET_CHECK_STATUS, NewPortConfig)
  ELSE IF port_id \notin DOMAIN m.node_id_to_port_id_to_port_config_[node_id]
  THEN Val(RET_CHECK_STATUS, NewPortConfig)
  ELSE Val(OK, m.node_id_to_port_id_to_port_config_[node_id][port_id])

\* GetPortState, after sde_interface_->GetPortState has answered; live is the
\* state the backend reports
GetPortStateAfterQuery(m, x, live) ==
  IF ~LastOk(x) THEN Ans(m, x, ERR_SDE, NullOpt) ELSE Ans(m, x, OK, Some(live))

\* GetPortState, when the cached state does not answer the query
GetPortStateQuery(m, x, F, live, unit, sdk_port_id) ==
  IF sdk_port_id.status # OK THEN Ans(m, x, sdk_port_id.status, NullOpt)
  ELSE GetPortStateAfterQuery(
         m, Call(x, F, "GetPortState", unit, sdk_port_id.value, [reports |-> live]),
         live)

\* (GetPortState, were it to store the state the backend reports)
GetPortStateCaching(m, x, F, live, node_id, port_id) ==
  IF GetSdkPortId(m, node_id, port_id).status # OK
  THEN Ans(m, x, GetSdkPortId(m, node_id, port_id).status, NullOpt)
  ELSE Ans([m EXCEPT !.node_id_to_port_id_to_port_state_ =
                        MapPut2(@, node_id, port_id, live)],
           Call(x, F, "GetPortState", GetUnitFromNodeId(m, node_id).value,
                GetSdkPortId(m, node_id, port_id).value, [reports |-> live]),
           OK, Some(live))

\* GetPortState(node_id, port_id)
GetPortState(m, x, F, live, node_id, port_id) ==
  IF ~m.initialized_ THEN Ans(m, x, ERR_NOT_INITIALIZED, NullOpt)
  ELSE IF GetUnitFromNodeId(m, node_id).status # OK
  THEN Ans(m, x, GetUnitFromNodeId(m, node_id).status, NullOpt)
  ELSE IF node_id \notin DOMAIN m.node_id_to_port_id_to_port_state_
  THEN Ans(m, x, RET_CHECK_STATUS, NullOpt)
  ELSE IF /\ port_id \in DOMAIN m.node_id_to_port_id_to_port_state_[node_id]
          /\ m.node_id_to_port_id_to_port_state_[node_id][port_id] # PORT_STATE_UNKNOWN
  THEN Ans(m, x, OK, Some(m.node_id_to_port_id_to_port_state_[node_id][port_id]))
  ELSE GetPortStateQuery(m, x, F, live, GetUnitFromNodeId(m, node_id).value,
                         GetSdkPortId(m, node_id, port_id))

\* GetPortTimeLastChanged(node_id, port_id)
GetPortTimeLastChanged(m, node_id, port_id) ==
  IF ~m.initialized_ THEN Val(ERR_NOT_INITIALIZED, UnixEpoch)
  ELSE IF Count(m.node_id_to_port_id_to_time_last_changed_, node_id) = 0
  THEN Val(RET_CHECK_STATUS, UnixEpoch)
  ELSE IF Count(m.node_id_to_port_id_to_time_last_changed_[node_id], port_id) = 0
  THEN Val(RET_CHECK_STATUS, UnixEpoch)
  ELSE Val(OK, m.node_id_to_port_id_to_time_last_changed_[node_id][port_id])

\* GetPortCounters, after sde_interface_->GetPortCounters has answered
GetPortCountersAfterQuery(m, x) ==
  IF ~LastOk(x) THEN Ans(m, x, ERR_SDE, NullOpt)
  ELSE Ans(m, x, OK, Some("PortCounters"))

\* GetPortCounters(node_id, port_id, counters)
GetPortCounters(m, x, F, node_id, port_id) ==
  IF ~m.initialized_ THEN Ans(m, x, ERR_NOT_INITIALIZED, NullOpt)
  ELSE IF GetUnitFromNodeId(m, node_id).status # OK
  THEN Ans(m, x, GetUnitFromNodeId(m, node_id).status, NullOpt)
  ELSE IF GetSdkPortId(m, node_id, port_id).status # OK
  THEN Ans(m, x, GetSdkPortId(m, node_id, port_id).status, NullOpt)
  ELSE GetPortCountersAfterQuery(
         m, Call(x, F, "GetPortCounters", GetUnitFromNodeId(m, node_id).value,
                 GetSdkPortId(m, node_id, port_id).value, NoArgs))

\* GetNodeIdToUnitMap()
GetNodeIdToUnitMap(m) ==
  IF ~m.initialized_ THEN Val(ERR_NOT_INITIALIZED, EmptyMap)
  ELSE Val(OK, m.node_id_to_unit_)

\* a DataResponse: the variant that is set and what it holds; an optional field
\* left unset is NullOpt
DataResponse(kind, value) == [kind |-> kind, value |-> value]

\* GetPortData, case kOperStatus, after GetPortState
DataOperStatus(r, time) ==
  IF r.status # OK THEN r
  ELSE IF time.status # OK THEN Ans(r.mgr, Ctx(r), time.status, NullOpt)
  ELSE Ans(r.mgr, Ctx(r), OK,
           Some(DataResponse("oper_status",
                             [state |-> Value(r.value),
                              time_last_changed |-> time.value])))

\* GetPortData, case kNegotiatedPortSpeed, after GetPortState
DataNegotiatedAfterState(r, config) ==
  IF r.status # OK THEN r
  ELSE IF Value(r.value) # PORT_STATE_UP
  THEN Ans(r.mgr, Ctx(r), OK, Some(DataResponse("REQUEST_NOT_SET", NullOpt)))
  ELSE Ans(r.mgr, Ctx(r), OK,
           Some(DataResponse("negotiated_port_speed", config.speed_bps)))

\* GetPortData, case kNegotiatedPortSpeed
DataNegotiated(m, x, F, live, node_id, port_id, config) ==
  IF config.status # OK THEN Ans(m, x, config.status, NullOpt)
  ELSE IF ~HasValue(config.value.speed_bps)
  THEN Ans(m, x, OK, Some(DataResponse("REQUEST_NOT_SET", NullOpt)))
  ELSE DataNegotiatedAfterState(GetPortState(m, x, F, live, node_id, port_id),
                                config.value)

\* GetPortData, the cases that answer from one field of the PortConfig: the
\* variant is set when the field has a value
DataConfigField(m, x, kind, config, field) ==
  IF config.status # OK THEN Ans(m, x, config.status, NullOpt)
  ELSE IF field = "admin_state"
  THEN Ans(m, x, OK, Some(DataResponse(kind, Some(config.value.admin_state))))
  ELSE IF ~HasValue(config.value[field])
  THEN Ans(m, x, OK, Some(DataResponse("REQUEST_NOT_SET", NullOpt)))
  ELSE Ans(m, x, OK, Some(DataResponse(kind, config.value[field])))

\* GetPortData, case kPortCounters and case kSdnPortId
DataPortCounters(r) ==
  IF r.status # OK THEN r
  ELSE Ans(r.mgr, Ctx(r), OK, Some(DataResponse("port_counters", r.value)))
DataSdnPortId(m, x, sdk_port_id) ==
  IF sdk_port_id.status # OK THEN Ans(m, x, sdk_port_id.status, NullOpt)
  ELSE Ans(m, x, OK, Some(DataResponse("sdn_port_id", Some(sdk_port_id.value))))

\* GetPortData(request)
GetPortData(m, x, F, live, request) ==
  IF ~m.initialized_ THEN Ans(m, x, ERR_NOT_INITIALIZED, NullOpt)
  ELSE CASE request.kind = "oper_status" ->
              DataOperStatus(
                GetPortState(m, x, F, live, request.node_id, request.port_id),
                GetPortTimeLastChanged(m, request.node_id, request.port_id))
         [] request.kind = "admin_status" ->
              DataConfigField(m, x, "admin_status",
                GetPortConfig(m, request.node_id, request.port_id), "admin_state")
         [] request.kind = "mac_address" ->
              Ans(m, x, OK, Some(DataResponse("mac_address", Some(kDummyMacAddress))))
         [] request.kind = "port_speed" ->
              DataConfigField(m, x, "port_speed",
                GetPortConfig(m, request.node_id, request.port_id), "speed_bps")
         [] request.kind = "negotiated_port_speed" ->
              DataNegotiated(m, x, F, live, request.node_id, request.port_id,
                GetPortConfig(m, request.node_id, request.port_id))
         [] request.kind = "lacp_router_mac" ->
              Ans(m, x, OK, Some(DataResponse("lacp_router_mac", Some(kDummyMacAddress))))
         [] request.kind = "port_counters" ->
              DataPortCounters(
                GetPortCounters(m, x, F, request.node_id, request.port_id))
         [] request.kind = "autoneg_status" ->
              DataConfigField(m, x, "autoneg_status",
                GetPortConfig(m, request.node_id, request.port_id), "autoneg")
         [] request.kind = "front_panel_port_info" ->
              Ans(m, x, OK, Some(DataResponse("REQUEST_NOT_SET", NullOpt)))
         [] request.kind = "fec_status" ->
              DataConfigField(m, x, "fec_status",
                GetPortConfig(m, request.node_id, request.port_id), "fec_mode")
         [] request.kind = "loopback_status" ->
              DataConfigField(m, x, "loopback_status",
                GetPortConfig(m, request.node_id, request.port_id), "loopback_mode")
         [] request.kind = "sdn_port_id" ->
              DataSdnPortId(m, x, GetSdkPortId(m, request.node_id, request.port_id))
         [] request.kind = "forwarding_viability" ->
              Ans(m, x, OK, Some(DataResponse("forwarding_viability",
                                              Some(TRUNK_MEMBER_BLOCK_STATE_UNKNOWN))))
         [] request.kind = "health_indicator" ->
              Ans(m, x, OK, Some(DataResponse("health_indicator",
                                              Some(HEALTH_STATE_UNKNOWN))))
         [] OTHER -> Ans(m, x, ERR_INTERNAL, NullOpt)

\* RegisterEventNotifyWriter(writer) and UnregisterEventNotifyWriter(): the
\* writer slot after the call
nullptr == "nullptr"
RegisterEventNotifyWriter(writer) == writer
UnregisterEventNotifyWriter == nullptr

-----------------------------------------------------------------------------
(* ReplayPortsConfig *)

\* replay_one_port: the admin state recorded at its end
ReplayAdmin(n, config) ==
  IF config.admin_state = ADMIN_STATE_ENABLED
  THEN [n EXCEPT !.admin_state = ADMIN_STATE_ENABLED] ELSE n

\* replay_one_port after SetPortLoopbackMode
ReplayAfterLoopback(x, config, n) ==
  IF Failed(HasValue(config.loopback_mode), x) THEN Ret(x, n, ERR_SDE)
  ELSE Ret(x, ReplayAdmin(IF HasValue(config.loopback_mode)
                          THEN [n EXCEPT !.loopback_mode = Some(Value(config.loopback_mode))]
                          ELSE n, config), OK)

\* replay_one_port after SetPortAutonegPolicy
ReplayAfterAutoneg(x, F, unit, sdk_port_id, config, n) ==
  IF Failed(HasValue(config.autoneg), x) THEN Ret(x, n, ERR_SDE)
  ELSE ReplayAfterLoopback(
         CallIf(HasValue(config.loopback_mode), x, F, "SetPortLoopbackMode", unit,
                sdk_port_id, [value |-> Value(config.loopback_mode)]),
         config,
         IF HasValue(config.autoneg)
         THEN [n EXCEPT !.autoneg = Some(Value(config.autoneg))] ELSE n)

\* the fields recorded once the port has been created, were the speed left out
ReplayFillWithoutSpeed(n, config) ==
  [n EXCEPT !.admin_state = ADMIN_STATE_DISABLED,
            !.fec_mode = Some(Value(config.fec_mode)),
            !.mtu = IF HasValue(config.mtu) THEN Some(Value(config.mtu)) ELSE @]

\* the fields replay_one_port records once the port has been created: speed,
\* admin state disabled, FEC mode, and the MTU if there is one
ReplayFill(n, config) ==
  [n EXCEPT !.speed_bps = Some(Value(config.speed_bps)),
            !.admin_state = ADMIN_STATE_DISABLED,
            !.fec_mode = Some(Value(config.fec_mode)),
            !.mtu = IF HasValue(config.mtu) THEN Some(Value(config.mtu)) ELSE @]

\* replay_one_port after AddPort
ReplayAfterAdd(x, F, unit, sdk_port_id, config, n0) ==
  IF ~LastOk(x) THEN Ret(x, n0, ERR_SDE)
  ELSE ReplayAfterAutoneg(
         CallIf(HasValue(config.autoneg), x, F, "SetPortAutonegPolicy", unit,
                sdk_port_id, [value |-> Value(config.autoneg)]),
         F, unit, sdk_port_id, config, ReplayFill(n0, config))

\* replay_one_port once the SDK port id has been looked up
ReplayWithSdkPort(x, F, unit, sdk, config, n0) ==
  IF sdk.status # OK THEN Ret(x, n0, sdk.status)
  ELSE ReplayAfterAdd(
         Call(x, F, "AddPort", unit, sdk.value,
              AddPortArgs(Value(config.speed_bps), NoArgs, Value(config.fec_mode))),
         F, unit, sdk.value, config, n0)

\* replay_one_port, were no port skipped
ReplaySkipsNone(config) == FALSE

\* whether replay_one_port skips the port: it was never configured properly
ReplaySkips(config) == config.admin_state = ADMIN_STATE_UNKNOWN

\* replay_one_port(port_id, config, config_new); config_new starts as PortConfig()
ReplayOnePort(x, F, m, node_id, unit, port_id, config) ==
  IF ReplaySkips(config) THEN Ret(x, NewPortConfig, OK)
  ELSE IF ~HasValue(config.speed_bps) THEN Ret(x, NewPortConfig, ERR_INTERNAL)
  ELSE IF ~HasValue(config.fec_mode) THEN Ret(x, NewPortConfig, ERR_INTERNAL)
  ELSE ReplayWithSdkPort(x, F, unit, GetSdkPortId(m, node_id, port_id), config,
                         NewPortConfig)

\* APPEND_STATUS_IF_ERROR(status, expr), were the status overwritten, not appended to
AppendStatusLast(status, st) == st

\* APPEND_STATUS_IF_ERROR(status, expr): the first error is kept
AppendStatus(status, st) == IF status = OK THEN st ELSE status

\* the loop of ReplayPortsConfig over the node's ports, in port id order; every
\* port's entry is overwritten with its config_new
RECURSIVE ReplayLoop(_, _, _, _, _, _, _, _, _)
ReplayLoopAfter(r, F, m, node_id, unit, port_ids, i, status, per_port) ==
  ReplayLoop(r.x, F,
             [m EXCEPT !.node_id_to_port_id_to_port_config_[node_id][port_ids[i]] =
                r.config],
             node_id, unit, port_ids, i + 1,
             AppendStatus(status, r.status), MapPut(per_port, port_ids[i], r.status))

ReplayLoop(x, F, m, node_id, unit, port_ids, i, status, per_port) ==
  IF i > Len(port_ids)
  THEN [x |-> x, m |-> m, status |-> status, per_port |-> per_port]
  ELSE ReplayLoopAfter(
         ReplayOnePort(x, F, m, node_id, unit, port_ids[i],
                       m.node_id_to_port_id_to_port_config_[node_id][port_ids[i]]),
         F, m, node_id, unit, port_ids, i, status, per_port)

\* a reset that clears m[node_id] instead of overwriting its entries
ResetAllClearing(m, node_id, v) == MapPut(m, node_id, EmptyMap)

\* m[node_id] with every entry set to v; operator[] creates m[node_id] when absent
ResetAll(m, node_id, v) ==
  MapPut(m, node_id, [p \in (IF node_id \in DOMAIN m THEN DOMAIN m[node_id] ELSE {}) |-> v])

\* the reset of the node's cached port states and timestamps, and
\* node_id_to_port_id_to_port_config_[node_id], which the loop iterates
ReplayReset(m, node_id) ==
  [m EXCEPT
     !.node_id_to_port_id_to_port_state_ = ResetAll(@, node_id, PORT_STATE_UNKNOWN),
     !.node_id_to_port_id_to_time_last_changed_ = ResetAll(@, node_id, UnixEpoch),
     !.node_id_to_port_id_to_port_config_ = MapTouch(@, node_id, EmptyMap)]

\* the result of Replay: that of an operation, and each replayed port's status
ReplayOut(r) ==
  [mgr |-> r.m, sde |-> r.x.sde, calls |-> r.x.calls, status |-> r.status,
   per_port |-> r.per_port]

\* Replay once the manager is known to be initialized and the node's unit looked up
ReplayNode(m, x0, node_id, F, u) ==
  IF u.status # OK
  THEN ReplayOut([x |-> x0, m |-> m, status |-> u.status, per_port |-> EmptyMap])
  ELSE ReplayOut(
         ReplayLoop(x0, F, ReplayReset(m, node_id), node_id, u.value,
                    Sorted(IF node_id \in DOMAIN m.node_id_to_port_id_to_port_config_
                           THEN DOMAIN m.node_id_to_port_id_to_port_config_[node_id]
                           ELSE {}),
                    1, OK, EmptyMap))

\* ReplayPortsConfig(node_id) on manager m and backend s
ReplayPortsConfig(m, s, node_id, F) ==
  IF ~m.initialized_
  THEN ReplayOut([x |-> [calls |-> << >>, sde |-> s], m |-> m,
                  status |-> ERR_NOT_INITIALIZED, per_port |-> EmptyMap])
  ELSE ReplayNode(m, [calls |-> << >>, sde |-> s], node_id, F,
                  GetUnitFromNodeId(m, node_id))

-----------------------------------------------------------------------------
(* Shutdown *)

\* CleanupInternalState(), were node_id_to_unit_ not cleared
CleanupInternalStateKeepUnits(m) ==
  [NewManager EXCEPT !.initialized_ = m.initialized_,
                     !.node_id_to_unit_ = m.node_id_to_unit_]

\* CleanupInternalState(), were node_id_to_port_id_to_port_config_ not cleared
CleanupInternalStateKeepConfigs(m) ==
  [NewManager EXCEPT
     !.initialized_ = m.initialized_,
     !.node_id_to_port_id_to_port_config_ = m.node_id_to_port_id_to_port_config_]

\* CleanupInternalState(): all maps cleared
CleanupInternalState(m) == [NewManager EXCEPT !.initialized_ = m.initialized_]

\* Shutdown(), were the maps left as they are
ShutdownWithoutCleanup(m) ==
  IF ~m.initialized_ THEN [mgr |-> m, status |-> OK]
  ELSE [mgr |-> [m EXCEPT !.initialized_ = FALSE], status |-> OK]

\* Shutdown()
Shutdown(m) ==
  IF ~m.initialized_ THEN [mgr |-> m, status |-> OK]
  ELSE [mgr |-> CleanupInternalState([m EXCEPT !.initialized_ = FALSE]), status |-> OK]

-----------------------------------------------------------------------------
(* The desired configs the callers push *)

\* the port speeds the callers ask for
Speeds == {10, 25}
BaseSpeed == Min(Speeds)
\* the MTUs the callers ask for: 0 is "not set"
Mtus == {0, 9000}

MkPort(id, node, port, speed_bps, admin_state, fec_mode, mtu, autoneg, loopback_mode, pipeline_name) ==
  [id |-> id, name |-> "", slot |-> 1, port |-> port, channel |-> 0, node |-> node,
   speed_bps |-> speed_bps,
   config_params |->
     [admin_state |-> admin_state, fec_mode |-> fec_mode, mtu |-> mtu,
      autoneg |-> autoneg, loopback_mode |-> loopback_mode,
      port_type |-> PORT_TYPE_TAP, pipeline_name |-> pipeline_name]]

MkNode(id) == [id |-> id, slot |-> 1]

MkConfig(nodes, singleton_ports) ==
  [trunk_ports_size |-> 0, port_groups_size |-> 0, has_chassis |-> TRUE,
   platform |-> PLT_P4_SOFT_SWITCH, nodes |-> nodes,
   singleton_ports |-> singleton_ports]

\* Port p of node 1, wired to front-panel port p, or absent: its admin state
\* varies, the other parameters are left unset.
PlainPort(p) ==
  {<< >>} \cup
  {<<MkPort(p, 1, p, BaseSpeed, admin, FEC_MODE_UNKNOWN, 0, TRI_STATE_UNKNOWN,
            LOOPBACK_STATE_UNKNOWN, "")>> :
     admin \in {ADMIN_STATE_ENABLED, ADMIN_STATE_DISABLED, ADMIN_STATE_UNKNOWN,
                ADMIN_STATE_DIAG}}

RECURSIVE PlainPorts(_)
PlainPorts(n) ==
  IF n = 0 THEN {<< >>}
  ELSE {ps \o q : ps \in PlainPorts(n - 1), q \in PlainPort(n)}

\* One node; each of the ports 1..MaxPorts present or absent
Configs == {MkConfig(<<MkNode(1)>>, ps) : ps \in PlainPorts(MaxPorts)}

\* One node with port 1, or without it: its speed, admin state, FEC mode and MTU vary
SpeedConfigs ==
  {MkConfig(<<MkNode(1)>>, << >>)} \cup
  {MkConfig(<<MkNode(1)>>,
            <<MkPort(1, 1, 1, speed, admin, fec, mtu, TRI_STATE_UNKNOWN,
                     LOOPBACK_STATE_UNKNOWN, "")>>) :
     speed \in Speeds,
     admin \in {ADMIN_STATE_ENABLED, ADMIN_STATE_DISABLED, ADMIN_STATE_UNKNOWN,
                ADMIN_STATE_DIAG},
     fec \in {FEC_MODE_UNKNOWN, FEC_MODE_ON},
     mtu \in Mtus}

\* One node with port 1, or without it: its admin state is enabled or disabled;
\* its MTU, autoneg and loopback mode are set or left unset
ParamConfigs ==
  {MkConfig(<<MkNode(1)>>, << >>)} \cup
  {MkConfig(<<MkNode(1)>>,
            <<MkPort(1, 1, 1, BaseSpeed, admin, FEC_MODE_UNKNOWN, mtu, autoneg,
                     loopback, "")>>) :
     admin \in {ADMIN_STATE_ENABLED, ADMIN_STATE_DISABLED},
     mtu \in Mtus,
     autoneg \in {TRI_STATE_UNKNOWN, TRI_STATE_TRUE},
     loopback \in {LOOPBACK_STATE_UNKNOWN, LOOPBACK_STATE_MAC}}

\* The layouts: the nodes in either order; port 1 absent, or on any node and
\* front-panel port.  The port may name a node the config does not declare (a
\* config Verify refuses).
LayoutNodes ==
  {<<MkNode(1)>>, <<MkNode(1), MkNode(2)>>, <<MkNode(2), MkNode(1)>>}

LayoutPort ==
  {<< >>} \cup
  {<<MkPort(1, node, port, speed, ADMIN_STATE_ENABLED, FEC_MODE_UNKNOWN, 0,
            TRI_STATE_UNKNOWN, LOOPBACK_STATE_UNKNOWN, "")>> :
     node \in 1..MaxNodes, port \in 1..MaxPorts, speed \in {BaseSpeed}}

LayoutConfigs ==
  {MkConfig(nodes, ps) : nodes \in LayoutNodes, ps \in LayoutPort}

\* The node lists: one node, two nodes in either order, or the same node id
\* declared twice (a config Verify refuses); no port, port 1 on node 1, or
\* port 1 on node 1 and port 2 on node 2, which the config may not declare
NodeConfigs ==
  {MkConfig(nodes, ps) :
     nodes \in LayoutNodes \cup {<<MkNode(1), MkNode(1)>>},
     ps \in {<< >>,
             <<MkPort(1, 1, 1, BaseSpeed, ADMIN_STATE_ENABLED, FEC_MODE_UNKNOWN,
                      0, TRI_STATE_UNKNOWN, LOOPBACK_STATE_UNKNOWN, "")>>,
             <<MkPort(1, 1, 1, BaseSpeed, ADMIN_STATE_ENABLED, FEC_MODE_UNKNOWN,
                      0, TRI_STATE_UNKNOWN, LOOPBACK_STATE_UNKNOWN, ""),
               MkPort(2, 2, 2, BaseSpeed, ADMIN_STATE_ENABLED, FEC_MODE_UNKNOWN,
                      0, TRI_STATE_UNKNOWN, LOOPBACK_STATE_UNKNOWN, "")>>}}

\* One node; port 1 enabled, port 2 absent or enabled
LockConfigs ==
  {MkConfig(<<MkNode(1)>>, p1 \o p2) :
     p1 \in {<<MkPort(1, 1, 1, BaseSpeed, ADMIN_STATE_ENABLED, FEC_MODE_UNKNOWN,
                      0, TRI_STATE_UNKNOWN, LOOPBACK_STATE_UNKNOWN, "")>>},
     p2 \in {<< >>,
             <<MkPort(2, 1, 2, BaseSpeed, ADMIN_STATE_ENABLED, FEC_MODE_UNKNOWN,
                      0, TRI_STATE_UNKNOWN, LOOPBACK_STATE_UNKNOWN, "")>>}}

\* One node; port 1 absent, or enabled, disabled or with admin state unknown;
\* port 2 absent or enabled
QueryConfigs ==
  {MkConfig(<<MkNode(1)>>, p1 \o p2) :
     p1 \in PlainPort(1) \ {<<MkPort(1, 1, 1, BaseSpeed, ADMIN_STATE_DIAG,
                                     FEC_MODE_UNKNOWN, 0, TRI_STATE_UNKNOWN,
                                     LOOPBACK_STATE_UNKNOWN, "")>>},
     p2 \in {<< >>,
             <<MkPort(2, 1, 2, BaseSpeed, ADMIN_STATE_ENABLED, FEC_MODE_UNKNOWN,
                      0, TRI_STATE_UNKNOWN, LOOPBACK_STATE_UNKNOWN, "")>>}}

\* A config that Verify accepts (two nodes, a port on each), and the configs that
\* differ from it by one defect in the config, in a node or in the second port
SoundNodes == <<MkNode(1), MkNode(2)>>
SoundPort(p) ==
  MkPort(p, p, p, BaseSpeed, ADMIN_STATE_ENABLED, FEC_MODE_UNKNOWN, 0,
         TRI_STATE_UNKNOWN, LOOPBACK_STATE_UNKNOWN, "")
SoundConfig == MkConfig(SoundNodes, <<SoundPort(1), SoundPort(2)>>)

DefectiveNodes ==
  {<< >>,
   <<MkNode(1), [MkNode(2) EXCEPT !.id = 0]>>,
   <<MkNode(1), [MkNode(2) EXCEPT !.slot = 0]>>,
   <<MkNode(2), MkNode(2)>>}

DefectivePorts ==
  {[SoundPort(2) EXCEPT !.id = kCpuPortId],
   [SoundPort(2) EXCEPT !.slot = 0],
   [SoundPort(2) EXCEPT !.port = 0],
   [SoundPort(2) EXCEPT !.speed_bps = 0],
   [SoundPort(2) EXCEPT !.node = 0],
   [SoundPort(2) EXCEPT !.node = 3],
   [SoundPort(2) EXCEPT !.port = 1],
   [SoundPort(2) EXCEPT !.id = 1, !.node = 1]}

SoundConfigs ==
  {SoundConfig, MkConfig(SoundNodes, << >>), MkConfig(SoundNodes, <<SoundPort(1)>>)}

DefectConfigs ==
  SoundConfigs \cup
  {[SoundConfig EXCEPT !.trunk_ports_size = 1],
   [SoundConfig EXCEPT !.port_groups_size = 1],
   [SoundConfig EXCEPT !.has_chassis = FALSE],
   [SoundConfig EXCEPT !.platform = PLT_UNKNOWN],
   [SoundConfig EXCEPT !.platform = PLT_GENERIC_TRIDENT2]}
  \cup {[SoundConfig EXCEPT !.nodes = nodes] : nodes \in DefectiveNodes}
  \cup {[SoundConfig EXCEPT !.singleton_ports[2] = port] : port \in DefectivePorts}

\* the desired port with the optional control_port name of its config parameters
WithControlPort(singleton_port, name) ==
  [singleton_port EXCEPT !.config_params = [control_port |-> name] @@ @]

\* the names a caller sets, "" being "not set"
PipelineNames == {"", "pipe1"}
ControlPortNames == {"", "ctl0"}

\* One node with port 1, or without it: its pipeline name and control port name
\* are set or left unset, its admin state is enabled or disabled, its autoneg
\* is set or left unset
NameConfigs ==
  {MkConfig(<<MkNode(1)>>, << >>)} \cup
  {MkConfig(<<MkNode(1)>>,
            <<WithControlPort(
                MkPort(1, 1, 1, BaseSpeed, admin, FEC_MODE_UNKNOWN, 0, autoneg,
                       LOOPBACK_STATE_UNKNOWN, pipeline),
                control)>>) :
     admin \in {ADMIN_STATE_ENABLED, ADMIN_STATE_DISABLED},
     autoneg \in {TRI_STATE_UNKNOWN, TRI_STATE_TRUE},
     pipeline \in PipelineNames,
     control \in ControlPortNames}

-----------------------------------------------------------------------------
(* The state machine *)

NoSde == [ports |-> {}, enabled |-> {}]

\* a query's arguments; kind is the request kind of a GetPortData request
NoRequest == [kind |-> "none", node_id |-> 0, port_id |-> 0]

Idle ==
  [op |-> "none", config |-> MkConfig(<< >>, << >>), node_id |-> 0, F |-> {},
   status |-> OK, calls |-> << >>, per_port |-> EmptyMap,
   pre |-> NewManager, pre_sde |-> NoSde, request |-> NoRequest, value |-> NullOpt]

\* chassis_lock that nobody holds; no thread of SpecLock running
Unlocked == [writer |-> NullOpt, readers |-> {}]
NoThreads == << >>

\* The history of the manager:
\*   "new"              constructed, never initialized
\*   "live"             the last Push returned OK and no Shutdown has run since
\*   "shut"             a Shutdown has cleared an initialized manager, no Push since
\*   "shut_push_failed" as "shut", and every Push since has failed
HistAfter(op, status) ==
  IF op = "Push" /\ status = OK THEN "live"
  ELSE IF op = "Shutdown" /\ mgr.initialized_ THEN "shut"
  ELSE IF op = "Push" /\ hist \in {"shut", "shut_push_failed"} THEN "shut_push_failed"
  ELSE hist

Init ==
  /\ mgr = NewManager
  /\ sde = NoSde
  /\ last = Idle
  /\ gnmi_event_writer_ = nullptr
  /\ hist = "new"
  /\ chassis_lock = Unlocked
  /\ thr = NoThreads

\* operation op of the manager, on the current state, with the backend answering
\* negatively at the call positions F
Run(op, c, node_id, F) ==
  CASE op = "Push" -> PushChassisConfig(mgr, sde, c, F)
    [] op = "Verify" -> VerifyChassisConfig(mgr, sde, c, F)
    [] op = "Replay" -> ReplayPortsConfig(mgr, sde, node_id, F)
    [] op = "Shutdown" -> Out(Shutdown(mgr).mgr, [calls |-> << >>, sde |-> sde],
                              Shutdown(mgr).status)

\* The sets F of failing call positions to try for an operation: every position
\* in F is reached by the run, so that the call there is issued and fails; at
\* most MaxFail calls fail.
FailPlans(op, c, node_id) ==
  LET lvl[k \in 0..MaxFail] ==
        IF k = 0 THEN {{}}
        ELSE lvl[k - 1] \cup
             UNION {{P \cup {j} : j \in (Max(P) + 1)..Len(Run(op, c, node_id, P).calls)} :
                      P \in {Q \in lvl[k - 1] : Cardinality(Q) = k - 1}}
  IN lvl[MaxFail]

\* The operation op has run with result r: the manager and the backend are as it
\* left them, and `last` holds its input, what it returned, the backend calls it
\* issued and the state it started from.
Done(op, c, node_id, F, r) ==
  /\ mgr' = r.mgr
  /\ sde' = r.sde
  /\ last' = [op |-> op, config |-> c, node_id |-> node_id, F |-> F,
              status |-> r.status, calls |-> r.calls, per_port |-> r.per_port,
              pre |-> mgr, pre_sde |-> sde, request |-> NoRequest,
              value |-> NullOpt]
  /\ hist' = HistAfter(op, r.status)
  /\ UNCHANGED <<gnmi_event_writer_, chassis_lock, thr>>

\* a caller, holding chassis_lock, pushes config c
Push(c) ==
  /\ last.op = "none"
  /\ \E F \in FailPlans("Push", c, 0) : Done("Push", c, 0, F, Run("Push", c, 0, F))

\* a caller, holding chassis_lock, verifies config c
Verify(c) ==
  /\ last.op = "none"
  /\ \E F \in FailPlans("Verify", c, 0) :
       Done("Verify", c, 0, F, Run("Verify", c, 0, F))

\* a caller replays the ports of node node_id
Replay(node_id) ==
  /\ last.op = "none"
  /\ \E F \in FailPlans("Replay", Idle.config, node_id) :
       Done("Replay", Idle.config, node_id, F, Run("Replay", Idle.config, node_id, F))

\* a caller shuts the manager down
ShutdownCall ==
  /\ last.op = "none"
  /\ Done("Shutdown", Idle.config, 0, {}, Run("Shutdown", Idle.config, 0, {}))

\* the caller takes the result; the manager is ready for the next operation
Return ==
  /\ last.op # "none"
  /\ last' = Idle
  /\ UNCHANGED <<mgr, sde, gnmi_event_writer_, hist, chassis_lock, thr>>

\* The queries, by the name of the function called
Queries ==
  {"GetPortState", "GetPortConfig", "GetSdkPortId", "GetPortCounters",
   "GetPortTimeLastChanged", "GetUnitFromNodeId", "GetNodeIdToUnitMap",
   "GetPortData"}

\* the states a live backend query may report
LiveStates == {PORT_STATE_UP, PORT_STATE_DOWN}

\* the requests to ask: any node id and port id, of every kind for GetPortData
Requests(q) ==
  {[kind |-> kind, node_id |-> node_id, port_id |-> port_id] :
     kind \in IF q = "GetPortData" THEN RequestKinds ELSE {"none"},
     node_id \in IF q = "GetNodeIdToUnitMap" THEN {0} ELSE 1..MaxNodes,
     port_id \in IF q \in {"GetNodeIdToUnitMap", "GetUnitFromNodeId"} THEN {0}
                 ELSE 1..MaxPorts}

\* query q of the manager, on the current state; the backend answers negatively
\* at the call positions F and reports the port state live
RunQuery(q, request, F, live) ==
  CASE q = "GetPortState" ->
         GetPortState(mgr, [calls |-> << >>, sde |-> sde], F, live,
                      request.node_id, request.port_id)
    [] q = "GetPortConfig" ->
         Lookup(mgr, [calls |-> << >>, sde |-> sde],
                GetPortConfig(mgr, request.node_id, request.port_id))
    [] q = "GetSdkPortId" ->
         Lookup(mgr, [calls |-> << >>, sde |-> sde],
                GetSdkPortId(mgr, request.node_id, request.port_id))
    [] q = "GetPortCounters" ->
         GetPortCounters(mgr, [calls |-> << >>, sde |-> sde], F,
                         request.node_id, request.port_id)
    [] q = "GetPortTimeLastChanged" ->
         Lookup(mgr, [calls |-> << >>, sde |-> sde],
                GetPortTimeLastChanged(mgr, request.node_id, request.port_id))
    [] q = "GetUnitFromNodeId" ->
         Lookup(mgr, [calls |-> << >>, sde |-> sde],
                GetUnitFromNodeId(mgr, request.node_id))
    [] q = "GetNodeIdToUnitMap" ->
         Lookup(mgr, [calls |-> << >>, sde |-> sde], GetNodeIdToUnitMap(mgr))
    [] q = "GetPortData" ->
         GetPortData(mgr, [calls |-> << >>, sde |-> sde], F, live, request)

\* the failing call positions to try for a query: none, or the one backend call
\* it issues
QueryFailPlans(q, request) ==
  {{}} \cup {{j} : j \in 1..Len(RunQuery(q, request, {}, PORT_STATE_UP).calls)}

QueryDone(q, request, F, r) ==
  /\ mgr' = r.mgr
  /\ sde' = r.sde
  /\ last' = [op |-> q, config |-> Idle.config, node_id |-> request.node_id,
              F |-> F, status |-> r.status, calls |-> r.calls,
              per_port |-> EmptyMap, pre |-> mgr, pre_sde |-> sde,
              request |-> request, value |-> r.value]
  /\ UNCHANGED <<gnmi_event_writer_, hist, chassis_lock, thr>>

\* a caller, holding chassis_lock as a reader, asks query q
Query(q) ==
  /\ last.op = "none"
  /\ \E request \in Requests(q) : \E F \in QueryFailPlans(q, request) :
       \E live \in LiveStates :
         QueryDone(q, request, F, RunQuery(q, request, F, live))

\* the event writers a caller may register
Writers == {"writer"}

\* a caller registers an event writer, or unregisters the one registered
Register(writer) ==
  /\ last.op = "none"
  /\ gnmi_event_writer_' = RegisterEventNotifyWriter(writer)
  /\ last' = [Idle EXCEPT !.op = "RegisterEventNotifyWriter", !.pre = mgr,
                          !.pre_sde = sde]
  /\ UNCHANGED <<mgr, sde, hist, chassis_lock, thr>>

Unregister ==
  /\ last.op = "none"
  /\ gnmi_event_writer_' = UnregisterEventNotifyWriter
  /\ last' = [Idle EXCEPT !.op = "UnregisterEventNotifyWriter", !.pre = mgr,
                          !.pre_sde = sde]
  /\ UNCHANGED <<mgr, sde, hist, chassis_lock, thr>>

NextOn(C) ==
  \/ \E c \in C : Push(c)
  \/ \E c \in C : Verify(c)
  \/ \E node_id \in 1..MaxNodes : Replay(node_id)
  \/ ShutdownCall
  \/ Return

Next == NextOn(Configs)

Spec == Init /\ [][Next]_vars

\* the same manager and callers, pushing other families of configs
NextSpeed == NextOn(SpeedConfigs)
SpecSpeed == Init /\ [][NextSpeed]_vars

NextParam == NextOn(ParamConfigs)
SpecParam == Init /\ [][NextParam]_vars

NextLayout == NextOn(LayoutConfigs)
SpecLayout == Init /\ [][NextLayout]_vars

NextNodes == NextOn(NodeConfigs)
SpecNodes == Init /\ [][NextNodes]_vars

\* the manager driven by pushes only
NextPush ==
  \/ \E c \in Configs : Push(c)
  \/ Return
SpecPush == Init /\ [][NextPush]_vars

\* the sound configs are pushed; these and the defective ones are verified
NextDefect ==
  \/ \E c \in SoundConfigs : Push(c)
  \/ \E c \in DefectConfigs : Verify(c)
  \/ \E node_id \in 1..MaxNodes : Replay(node_id)
  \/ ShutdownCall
  \/ Return
SpecDefect == Init /\ [][NextDefect]_vars

NextNames == NextOn(NameConfigs)
SpecNames == Init /\ [][NextNames]_vars

\* the manager with its queries and the event writer registration
NextQuery ==
  \/ NextOn(QueryConfigs)
  \/ \E q \in Queries : Query(q)
  \/ \E writer \in Writers : Register(writer)
  \/ Unregister
SpecQuery == Init /\ [][NextQuery]_vars

-----------------------------------------------------------------------------
(* The operations as threads.  A thread takes one step at a time; between two  *)
(* steps of one thread the others may step.  chassis_lock is an absl::Mutex:   *)
(* one writer, or any number of readers.                                       *)

Threads == {"pusher", "replayer", "shutter", "reader"}

\* a thread: where it is, and its locals (k counts the assignments done of a
\* swap or a clear; seen is the live generation it read, g the generation it
\* built)
IdleThread ==
  [pc |-> "idle", k |-> 0, node_id |-> 0, status |-> OK,
   seen |-> NewManager, g |-> NewManager]

\* absl::WriterMutexLock / absl::ReaderMutexLock: when the lock can be taken
\* exclusively / shared, and the lock once thread t has taken or released it
\* (a writer lock that were granted while readers hold the lock)
WriterFreeIgnoresReaders(l) == l.writer = NullOpt
WriterFree(l) == l.writer = NullOpt /\ l.readers = {}
ReaderFree(l) == l.writer = NullOpt
WriterMutexLock(l, t) == [l EXCEPT !.writer = Some(t)]
ReaderMutexLock(l, t) == [l EXCEPT !.readers = @ \cup {t}]
MutexUnlock(l, t) == [writer |-> l.writer \ {t}, readers |-> l.readers \ {t}]

\* the fields of the manager in the order in which PushChassisConfig assigns
\* them at its end, and in which Shutdown clears them
SwapOrder ==
  <<"unit_to_node_id_", "node_id_to_unit_", "node_id_to_port_id_to_port_state_",
    "node_id_to_port_id_to_time_last_changed_",
    "node_id_to_port_id_to_port_config_",
    "node_id_to_port_id_to_singleton_port_key_",
    "node_id_to_port_id_to_sdk_port_id_", "node_id_to_sdk_port_id_to_port_id_",
    "initialized_">>
ClearOrder ==
  <<"initialized_", "unit_to_node_id_", "node_id_to_unit_",
    "node_id_to_port_id_to_port_state_",
    "node_id_to_port_id_to_time_last_changed_",
    "node_id_to_port_id_to_port_config_",
    "node_id_to_port_id_to_singleton_port_key_",
    "node_id_to_port_id_to_sdk_port_id_", "node_id_to_sdk_port_id_to_port_id_">>

\* manager old after the first k assignments, in the given order, from new
Partial(old, new, order, k) ==
  [f \in DOMAIN old |->
     IF \E i \in 1..k : order[i] = f THEN new[f] ELSE old[f]]

\* the backend answers every call positively, or the first call negatively
LockFailPlans == {{}, {1}}

InitLock ==
  /\ mgr = NewManager
  /\ sde = NoSde
  /\ last = Idle
  /\ gnmi_event_writer_ = nullptr
  /\ hist = "new"
  /\ chassis_lock = Unlocked
  /\ thr = [t \in Threads |-> IdleThread]

\* thread t moves on to pc, with the locals named in the record set
Step(t, set) ==
  thr' = [thr EXCEPT ![t] = [f \in DOMAIN IdleThread |->
                               IF f \in DOMAIN set THEN set[f] ELSE thr[t][f]]]

\* the caller of VerifyChassisConfig and PushChassisConfig takes chassis_lock
\* as a writer
CallerLock ==
  /\ thr["pusher"].pc = "idle"
  /\ WriterFree(chassis_lock)
  /\ chassis_lock' = WriterMutexLock(chassis_lock, "pusher")
  /\ Step("pusher", [pc |-> "locked"])
  /\ UNCHANGED <<mgr, sde, last, gnmi_event_writer_, hist>>

\* VerifyChassisConfig(c), called with the lock held
CallerVerify(c) ==
  /\ thr["pusher"].pc = "locked"
  /\ mgr' = VerifyChassisConfig(mgr, sde, c, {}).mgr
  /\ sde' = VerifyChassisConfig(mgr, sde, c, {}).sde
  /\ Step("pusher", [pc |-> "verified",
                     status |-> VerifyChassisConfig(mgr, sde, c, {}).status])
  /\ UNCHANGED <<last, gnmi_event_writer_, hist, chassis_lock>>

\* PushChassisConfig(c) up to the cleanup pass: it reads the live generation,
\* builds the new one in its local maps and calls the backend
PushPassesDone(r) ==
  /\ mgr' = IF r.status = OK THEN mgr ELSE r.mgr
  /\ sde' = r.sde
  /\ Step("pusher", [pc |-> IF r.status = OK THEN "swap" ELSE "done", k |-> 0,
                     status |-> r.status, seen |-> mgr, g |-> r.mgr])
  /\ UNCHANGED <<last, gnmi_event_writer_, hist, chassis_lock>>

PushPasses(c) ==
  /\ thr["pusher"].pc \in {"locked", "verified"}
  /\ \E F \in LockFailPlans : PushPassesDone(PushChassisConfig(mgr, sde, c, F))

\* PushChassisConfig, the end: the next assignment of a local map to its member
PushSwap ==
  /\ thr["pusher"].pc = "swap"
  /\ mgr' = [mgr EXCEPT ![SwapOrder[thr["pusher"].k + 1]] =
                          thr["pusher"].g[SwapOrder[thr["pusher"].k + 1]]]
  /\ Step("pusher", [pc |-> IF thr["pusher"].k + 1 = Len(SwapOrder)
                            THEN "done" ELSE "swap",
                     k |-> thr["pusher"].k + 1])
  /\ UNCHANGED <<sde, last, gnmi_event_writer_, hist, chassis_lock>>

\* the caller releases the lock
CallerUnlock ==
  /\ thr["pusher"].pc = "done"
  /\ chassis_lock' = MutexUnlock(chassis_lock, "pusher")
  /\ Step("pusher", [pc |-> "idle"])
  /\ UNCHANGED <<mgr, sde, last, gnmi_event_writer_, hist>>

\* ReplayPortsConfig(node_id): the WriterMutexLock at its start
ReplayLock(node_id) ==
  /\ thr["replayer"].pc = "idle"
  /\ WriterFree(chassis_lock)
  /\ chassis_lock' = WriterMutexLock(chassis_lock, "replayer")
  /\ Step("replayer", [pc |-> "locked", node_id |-> node_id])
  /\ UNCHANGED <<mgr, sde, last, gnmi_event_writer_, hist>>

\* ReplayPortsConfig: the checks, and the reset of the cached states and times
ReplayResetStep ==
  /\ thr["replayer"].pc = "locked"
  /\ IF mgr.initialized_ /\ GetUnitFromNodeId(mgr, thr["replayer"].node_id).status = OK
     THEN /\ mgr' = ReplayReset(mgr, thr["replayer"].node_id)
          /\ Step("replayer", [pc |-> "loop"])
     ELSE /\ mgr' = mgr
          /\ Step("replayer", [pc |-> "done",
                               status |-> ReplayPortsConfig(
                                            mgr, sde, thr["replayer"].node_id, {}).status])
  /\ UNCHANGED <<sde, last, gnmi_event_writer_, hist, chassis_lock>>

\* ReplayPortsConfig: the loop over the ports of the node
ReplayLoopDone(r) ==
  /\ mgr' = r.mgr
  /\ sde' = r.sde
  /\ Step("replayer", [pc |-> "done", status |-> r.status])
  /\ UNCHANGED <<last, gnmi_event_writer_, hist, chassis_lock>>

ReplayLoopStep ==
  /\ thr["replayer"].pc = "loop"
  /\ ReplayLoopDone(ReplayPortsConfig(mgr, sde, thr["replayer"].node_id, {}))

\* ReplayPortsConfig returns: the lock is released
ReplayUnlock ==
  /\ thr["replayer"].pc = "done"
  /\ chassis_lock' = MutexUnlock(chassis_lock, "replayer")
  /\ Step("replayer", [pc |-> "idle"])
  /\ UNCHANGED <<mgr, sde, last, gnmi_event_writer_, hist>>

\* Shutdown: the ReaderMutexLock of its first block
ShutdownReaderLock ==
  /\ thr["shutter"].pc = "idle"
  /\ ReaderFree(chassis_lock)
  /\ chassis_lock' = ReaderMutexLock(chassis_lock, "shutter")
  /\ Step("shutter", [pc |-> "check"])
  /\ UNCHANGED <<mgr, sde, last, gnmi_event_writer_, hist>>

\* Shutdown: it returns when the manager is not initialized; the reader lock
\* is released at the end of the block
ShutdownCheck ==
  /\ thr["shutter"].pc = "check"
  /\ chassis_lock' = MutexUnlock(chassis_lock, "shutter")
  /\ Step("shutter", [pc |-> IF mgr.initialized_ THEN "unlocked" ELSE "idle"])
  /\ UNCHANGED <<mgr, sde, last, gnmi_event_writer_, hist>>

\* Shutdown: the WriterMutexLock
ShutdownWriterLock ==
  /\ thr["shutter"].pc = "unlocked"
  /\ WriterFree(chassis_lock)
  /\ chassis_lock' = WriterMutexLock(chassis_lock, "shutter")
  /\ Step("shutter", [pc |-> "clear", k |-> 0, seen |-> mgr])
  /\ UNCHANGED <<mgr, sde, last, gnmi_event_writer_, hist>>

\* Shutdown: initialized_ = false, then each clear() of CleanupInternalState
ShutdownClear ==
  /\ thr["shutter"].pc = "clear"
  /\ mgr' = [mgr EXCEPT ![ClearOrder[thr["shutter"].k + 1]] =
                          Shutdown(thr["shutter"].seen).mgr[ClearOrder[thr["shutter"].k + 1]]]
  /\ Step("shutter", [pc |-> IF thr["shutter"].k + 1 = Len(ClearOrder)
                             THEN "done" ELSE "clear",
                      k |-> thr["shutter"].k + 1])
  /\ UNCHANGED <<sde, last, gnmi_event_writer_, hist, chassis_lock>>

\* Shutdown returns: the lock is released
ShutdownUnlock ==
  /\ thr["shutter"].pc = "done"
  /\ chassis_lock' = MutexUnlock(chassis_lock, "shutter")
  /\ Step("shutter", [pc |-> "idle"])
  /\ UNCHANGED <<mgr, sde, last, gnmi_event_writer_, hist>>

\* a caller of the queries takes chassis_lock as a reader, reads the live
\* generation, and releases the lock
ReaderLock ==
  /\ thr["reader"].pc = "idle"
  /\ ReaderFree(chassis_lock)
  /\ chassis_lock' = ReaderMutexLock(chassis_lock, "reader")
  /\ Step("reader", [pc |-> "reading"])
  /\ UNCHANGED <<mgr, sde, last, gnmi_event_writer_, hist>>

ReaderObserve ==
  /\ thr["reader"].pc = "reading"
  /\ Step("reader", [pc |-> "observed", seen |-> mgr])
  /\ UNCHANGED <<mgr, sde, last, gnmi_event_writer_, hist, chassis_lock>>

ReaderUnlock ==
  /\ thr["reader"].pc = "observed"
  /\ chassis_lock' = MutexUnlock(chassis_lock, "reader")
  /\ Step("reader", [pc |-> "idle", seen |-> NewManager])
  /\ UNCHANGED <<mgr, sde, last, gnmi_event_writer_, hist>>

NextLock ==
  \/ CallerLock
  \/ \E c \in LockConfigs : CallerVerify(c)
  \/ \E c \in LockConfigs : PushPasses(c)
  \/ PushSwap
  \/ CallerUnlock
  \/ \E node_id \in 1..MaxNodes : ReplayLock(node_id)
  \/ ReplayResetStep
  \/ ReplayLoopStep
  \/ ReplayUnlock
  \/ ShutdownReaderLock
  \/ ShutdownCheck
  \/ ShutdownWriterLock
  \/ ShutdownClear
  \/ ShutdownUnlock
  \/ ReaderLock
  \/ ReaderObserve
  \/ ReaderUnlock
SpecLock == InitLock /\ [][NextLock]_vars


-----------------------------------------------------------------------------
(* Properties *)

\* the operation that has just run
Ran(op) == last.op = op
\* the positions of the backend calls of the operation that has just run
CallIds == 1..Len(last.calls)
\* the calls among them that change the backend
MutatingCalls == {i \in CallIds : last.calls[i].op \in MutatingOps}
\* the calls of one kind among them
CallsOf(op) == {i \in CallIds : last.calls[i].op = op}
\* whether every backend call of the operation succeeded
AllCallsOk == \A i \in CallIds : last.calls[i].ok

\* the seven maps of a manager
Maps(m) ==
  <<m.unit_to_node_id_, m.node_id_to_unit_, m.node_id_to_port_id_to_port_state_,
    m.node_id_to_port_id_to_time_last_changed_, m.node_id_to_port_id_to_port_config_,
    m.node_id_to_port_id_to_singleton_port_key_, m.node_id_to_port_id_to_sdk_port_id_,
    m.node_id_to_sdk_port_id_to_port_id_>>
AllMapsEmpty(m) == \A i \in 1..Len(Maps(m)) : DOMAIN Maps(m)[i] = {}

\* C1: a PushChassisConfig that returns an error leaves the live maps and the
\* initialized flag exactly as they were before the call.
C1_PushAtomicOnFailure ==
  (Ran("Push") /\ last.status # OK) =>
    /\ Maps(mgr) = Maps(last.pre)
    /\ mgr.initialized_ = last.pre.initialized_

\* A push onto an existing generation fails after it has already changed the backend.
C1_Witness ==
  /\ Ran("Push") /\ last.status # OK
  /\ last.pre.initialized_
  /\ \E i \in MutatingCalls : last.calls[i].ok
  /\ ~last.calls[Len(last.calls)].ok
  /\ last.calls[Len(last.calls)].op = "DeletePort"

\* C10: Shutdown returns OK with initialized false and every map empty, and a
\* second Shutdown right after it returns OK, issues no backend call and leaves
\* the same cleared state.
C10_ShutdownIdempotent ==
  Ran("Shutdown") =>
    /\ last.status = OK
    /\ ~mgr.initialized_ /\ AllMapsEmpty(mgr)
    /\ last.calls = << >> /\ sde = last.pre_sde
    /\ Shutdown(mgr).status = OK
    /\ Shutdown(mgr).mgr = mgr

\* Shutdown has run on an initialized manager that held nodes and ports.
C10_Witness ==
  /\ Ran("Shutdown")
  /\ last.pre.initialized_
  /\ \A i \in 1..Len(Maps(last.pre)) : DOMAIN Maps(last.pre)[i] # {}

\* ReplayPortsConfig has run on an initialized manager for a node it knows
ReplayedNode ==
  /\ Ran("Replay")
  /\ last.pre.initialized_
  /\ last.node_id \in DOMAIN last.pre.node_id_to_unit_
\* the ports the manager held for that node, and what it had cached for each
NodePorts ==
  IF last.node_id \in DOMAIN last.pre.node_id_to_port_id_to_port_config_
  THEN DOMAIN last.pre.node_id_to_port_id_to_port_config_[last.node_id]
  ELSE {}
CachedConfig(p) == last.pre.node_id_to_port_id_to_port_config_[last.node_id][p]
\* the backend calls of the operation on the backend port of port p
CallsOn(p) ==
  {i \in CallIds :
     /\ last.calls[i].unit = last.pre.node_id_to_unit_[last.node_id]
     /\ last.calls[i].port =
          last.pre.node_id_to_port_id_to_sdk_port_id_[last.node_id][p]}

\* C8: on an initialized manager and a known node, ReplayPortsConfig issues
\* exactly one create for each port whose cached admin state is not unknown, no
\* backend call for a port whose cached admin state is unknown, and returns OK
\* when every backend call succeeds.
C8_ReplayReappliesConfigured ==
  ReplayedNode =>
    /\ \A p \in NodePorts :
         IF CachedConfig(p).admin_state # ADMIN_STATE_UNKNOWN
         THEN Cardinality(CallsOn(p) \cap CallsOf("AddPort")) = 1
         ELSE CallsOn(p) = {}
    /\ Cardinality(CallsOf("AddPort")) =
         Cardinality({p \in NodePorts :
                        CachedConfig(p).admin_state # ADMIN_STATE_UNKNOWN})
    /\ AllCallsOk => last.status = OK

\* A replay of two ports, one of them with unknown admin state, all calls succeeding.
C8_Witness ==
  /\ ReplayedNode
  /\ Cardinality(NodePorts) = MaxPorts
  /\ \E p \in NodePorts : CachedConfig(p).admin_state = ADMIN_STATE_UNKNOWN
  /\ \E p \in NodePorts : CachedConfig(p).admin_state # ADMIN_STATE_UNKNOWN
  /\ AllCallsOk /\ last.status = OK
  /\ Cardinality(CallsOf("AddPort")) = 1

\* C9: ReplayPortsConfig attempts every port of the node whatever fails (a
\* failure on one port never prevents the create of a later one) and returns an
\* error if and only if the replay of at least one port failed.
C9_ReplayAccumulatesErrors ==
  ReplayedNode =>
    /\ DOMAIN last.per_port = NodePorts
    /\ \A p \in NodePorts :
         CachedConfig(p).admin_state # ADMIN_STATE_UNKNOWN =>
           CallsOn(p) \cap CallsOf("AddPort") # {}
    /\ last.status # OK <=> \E p \in NodePorts : last.per_port[p] # OK
    /\ last.status # OK <=> ~AllCallsOk

\* The replay of a port fails, a later port is created all the same, and the
\* replay returns an error.
C9_Witness ==
  /\ ReplayedNode
  /\ \E p, q \in NodePorts :
       /\ p < q
       /\ last.per_port[p] # OK
       /\ \E i \in CallsOn(q) \cap CallsOf("AddPort") : last.calls[i].ok
       /\ last.per_port[q] = OK
  /\ last.status # OK

\* PushChassisConfig has run on a manager without a generation (fresh, or shut
\* down), for a config that VerifyChassisConfig accepts
FirstPush ==
  /\ Ran("Push")
  /\ ~last.pre.initialized_
  /\ VerifyChassisConfig(last.pre, last.pre_sde, last.config, {}).status = OK
\* the backend resolved the PortKey of every port of the config
Resolves == \A i \in CallsOf("GetPortIdFromPortKey") : last.calls[i].ok
\* no port of the config asks for the admin state unknown or diag
AdminOk ==
  \A i \in 1..Len(last.config.singleton_ports) :
    last.config.singleton_ports[i].config_params.admin_state
      \notin {ADMIN_STATE_UNKNOWN, ADMIN_STATE_DIAG}

\* C4, as stated: a first push of a verified config succeeds if and only if every
\* PortKey resolves and every desired admin state is neither unknown nor diag.
C4_AsStated ==
  FirstPush => (last.status = OK <=> (Resolves /\ AdminOk))

\* C4, amended: a first push of a verified config succeeds if and only if every
\* PortKey resolves, every desired admin state is neither unknown nor diag, and
\* every create and set call the push issues on the backend succeeds.
C4_FirstPushSuccess ==
  FirstPush =>
    (last.status = OK <=>
       (Resolves /\ AdminOk /\ \A i \in MutatingCalls : last.calls[i].ok))

\* A first push of MaxPorts ports, after a Shutdown left ports in the backend,
\* succeeds.
C4_Witness ==
  /\ FirstPush
  /\ Len(last.config.singleton_ports) = MaxPorts
  /\ last.pre_sde.ports # {}
  /\ last.status = OK

\* the Push of the same config again, right after the one that has just run, the
\* backend answering every call positively
RePush == PushChassisConfig(mgr, sde, last.config, {})

\* C2: after a successful Push, a Push of the identical config issues no call
\* that changes the backend and commits the same PortConfig entries, whether the
\* desired admin state is enabled or disabled and whether MTU, autoneg and
\* loopback mode are set or not.
C2_RePushIdempotent ==
  (Ran("Push") /\ last.status = OK) =>
    /\ RePush.status = OK
    /\ \A i \in 1..Len(RePush.calls) : RePush.calls[i].op \notin MutatingOps
    /\ RePush.mgr.node_id_to_port_id_to_port_config_ =
         mgr.node_id_to_port_id_to_port_config_

\* A Push of one port has run UpdatePortHelper on it: the manager held a healthy
\* entry for the port (admin state known, speed recorded), the backend resolved
\* its PortKey and reported the port valid.  The helper's calls start at
\* position 3, after GetPortIdFromPortKey and IsValidPort.
Desired == last.config.singleton_ports[1]
OldConfig == last.pre.node_id_to_port_id_to_port_config_[Desired.node][Desired.id]
UpdateRan ==
  /\ Ran("Push")
  /\ Len(last.config.singleton_ports) = 1
  /\ FindConfigOld(last.pre, Desired.node, Desired.id) # {}
  /\ OldConfig.admin_state # ADMIN_STATE_UNKNOWN
  /\ HasValue(OldConfig.speed_bps)
  /\ Len(last.calls) >= 2
  /\ last.calls[1].ok
  /\ last.calls[2].op = "IsValidPort" /\ last.calls[2].ok
\* what that UpdatePortHelper returned: its status and the config it left
UpdateOut ==
  UpdatePortHelper([calls |-> <<last.calls[1]>>, sde |-> last.pre_sde], last.F,
                   Desired.node, last.calls[1].unit, last.calls[1].port, Desired,
                   OldConfig)
\* the kinds of the helper's calls that are among ops, in the order issued
RECURSIVE OpsFrom(_, _)
OpsFrom(i, ops) ==
  IF i > Len(last.calls) THEN << >>
  ELSE (IF last.calls[i].op \in ops THEN <<last.calls[i].op>> ELSE << >>)
       \o OpsFrom(i + 1, ops)

C5_SpeedChangeRecreates ==
  (/\ UpdateRan
   /\ Some(Desired.speed_bps) # OldConfig.speed_bps
   /\ Len(last.calls) >= 4
   /\ last.calls[3].ok /\ last.calls[4].ok) =>
    /\ OpsFrom(3, {"DisablePort", "DeletePort"}) = <<"DisablePort", "DeletePort">>
    /\ Len(last.calls) >= 5
    /\ last.calls[5].op = "AddPort"
    /\ last.calls[5].args.speed_bps = Desired.speed_bps
    /\ IF last.calls[5].ok
       THEN /\ last.status = OK
            /\ Cardinality(CallsOf("AddPort")) = 1
       ELSE /\ last.status # OK
            /\ Cardinality(CallsOf("AddPort")) = 2
            /\ Len(last.calls) = 6
            /\ last.calls[6].op = "AddPort"
            /\ Some(last.calls[6].args.speed_bps) = OldConfig.speed_bps
            /\ Some(last.calls[6].args.params.mtu) = OldConfig.mtu
            /\ Some(last.calls[6].args.fec_mode) = OldConfig.fec_mode

\* C7: for an update with unchanged speed and FEC: old disabled, desired
\* disabled, nothing changed: no DisablePort and no EnablePort; old enabled,
\* desired enabled, MTU changed: one DisablePort, then one EnablePort; old
\* disabled, desired enabled, nothing else changed: one EnablePort, no DisablePort.
C7_AdminMatrixCalls ==
  (/\ UpdateRan
   /\ Some(Desired.speed_bps) = OldConfig.speed_bps
   /\ Some(Desired.config_params.fec_mode) = OldConfig.fec_mode
   /\ Desired.config_params.mtu # 0
   /\ Some(Desired.config_params.autoneg) = OldConfig.autoneg
   /\ Some(Desired.config_params.loopback_mode) = OldConfig.loopback_mode
   /\ AllCallsOk) =>
    /\ (/\ OldConfig.admin_state = ADMIN_STATE_DISABLED
        /\ Desired.config_params.admin_state = ADMIN_STATE_DISABLED
        /\ Some(Desired.config_params.mtu) = OldConfig.mtu)
       => OpsFrom(3, {"DisablePort", "EnablePort"}) = << >>
    /\ (/\ OldConfig.admin_state = ADMIN_STATE_ENABLED
        /\ Desired.config_params.admin_state = ADMIN_STATE_ENABLED
        /\ Some(Desired.config_params.mtu) # OldConfig.mtu)
       => OpsFrom(3, {"DisablePort", "EnablePort"}) = <<"DisablePort", "EnablePort">>
    /\ (/\ OldConfig.admin_state = ADMIN_STATE_DISABLED
        /\ Desired.config_params.admin_state = ADMIN_STATE_ENABLED
        /\ Some(Desired.config_params.mtu) = OldConfig.mtu)
       => OpsFrom(3, {"DisablePort", "EnablePort"}) = <<"EnablePort">>

\* The config handed to the operation passes the structural, node and per-port
\* checks of VerifyChassisConfig, and the backend resolved every PortKey.
PassesChecks ==
  /\ VerifyStructure(last.config) = OK
  /\ \A i \in 1..Len(last.config.nodes) : VerifyNode(last.config.nodes, i)
  /\ \A i \in 1..Len(last.config.singleton_ports) :
       VerifySingletonPort(last.config.singleton_ports, i,
                           VerifyUnits(last.config.nodes))
  /\ AllCallsOk
\* the (node, port) -> PortKey and node -> unit mappings of the config and of the
\* live generation, as sets of tuples
ConfigKeys ==
  {<<last.config.singleton_ports[i].node, last.config.singleton_ports[i].id,
     PortKey(last.config.singleton_ports[i])>> :
     i \in 1..Len(last.config.singleton_ports)}
LiveKeys ==
  {<<k[1], k[2], last.pre.node_id_to_port_id_to_singleton_port_key_[k[1]][k[2]]>> :
     k \in Keys2(last.pre.node_id_to_port_id_to_singleton_port_key_)}
ConfigUnits == {<<last.config.nodes[i].id, i - 1>> : i \in 1..Len(last.config.nodes)}
LiveUnits ==
  {<<n, last.pre.node_id_to_unit_[n]>> : n \in DOMAIN last.pre.node_id_to_unit_}
LayoutDiffers == ConfigKeys # LiveKeys \/ ConfigUnits # LiveUnits

\* C3: on an initialized manager, VerifyChassisConfig of a config that passes the
\* structural, node, per-port and existence checks returns reboot-required if
\* and only if its PortKey mapping or its node -> unit mapping differs from the
\* live one, and OK otherwise; a config failing an earlier check gets that
\* check's error; an uninitialized manager never returns reboot-required.
C3_RebootRequiredIffLayoutDiffers ==
  Ran("Verify") =>
    /\ (last.pre.initialized_ /\ PassesChecks) =>
         /\ last.status = ERR_REBOOT_REQUIRED <=> LayoutDiffers
         /\ last.status = OK <=> ~LayoutDiffers
    /\ ~PassesChecks => last.status \notin {OK, ERR_REBOOT_REQUIRED}
    /\ ~last.pre.initialized_ => last.status # ERR_REBOOT_REQUIRED
    /\ mgr = last.pre

\* A verified config keeps every PortKey of the live generation but declares the
\* nodes in another order: reboot-required.
C3_Witness ==
  /\ Ran("Verify")
  /\ last.pre.initialized_ /\ PassesChecks
  /\ ConfigKeys = LiveKeys /\ ConfigKeys # {}
  /\ ConfigUnits # LiveUnits
  /\ last.status = ERR_REBOOT_REQUIRED

\* the manager has been shut down and no Push has returned OK since
Dead == hist \in {"shut", "shut_push_failed"}

\* C11: between a Shutdown and the next Push that returns OK, failed Push
\* attempts included, every query (GetPortState, GetPortConfig, GetSdkPortId,
\* GetPortCounters, GetPortTimeLastChanged, GetUnitFromNodeId,
\* GetNodeIdToUnitMap, GetPortData of every request kind) and ReplayPortsConfig
\* returns an error.
C11_QueriesDeadAfterShutdown ==
  (Dead /\ (last.op \in Queries \/ Ran("Replay"))) => last.status # OK

\* a Shutdown of an initialized manager, then a failed Push that left ports in
\* the backend, then GetPortConfig for a port of the old generation: an error
C11_Witness ==
  /\ hist = "shut_push_failed"
  /\ Ran("GetPortConfig")
  /\ last.pre_sde.ports # {}
  /\ last.status # OK

\* the queries that C12 names
GuardedLookups ==
  {"GetPortConfig", "GetSdkPortId", "GetPortCounters", "GetPortTimeLastChanged",
   "GetUnitFromNodeId"}

\* C12: called on a manager that is not initialized, each of GetPortConfig,
\* GetSdkPortId, GetPortCounters, GetPortTimeLastChanged and GetUnitFromNodeId
\* fails with ERR_NOT_INITIALIZED.
C12_NotInitializedStatus ==
  (last.op \in GuardedLookups /\ ~last.pre.initialized_) =>
    last.status = ERR_NOT_INITIALIZED

\* C13: VerifyChassisConfig is read-only: it leaves the maps of the live
\* generation, initialized_ and the event writer slot as they were, and the only
\* call it makes on the backend is GetPortIdFromPortKey.
C13_VerifyReadOnly ==
  [][(last.op = "none" /\ last'.op = "Verify") =>
       /\ mgr' = mgr
       /\ gnmi_event_writer_' = gnmi_event_writer_
       /\ sde' = sde
       /\ \A i \in DOMAIN last'.calls : last'.calls[i].op = "GetPortIdFromPortKey"]_vars

\* a Verify on an initialized manager with a writer registered, which resolved
\* a PortKey and found the layout changed
C13_Witness ==
  /\ Ran("Verify")
  /\ last.pre.initialized_
  /\ Keys2(last.pre.node_id_to_port_id_to_port_config_) # {}
  /\ gnmi_event_writer_ # nullptr
  /\ Len(last.calls) >= 1
  /\ last.status = ERR_REBOOT_REQUIRED

\* the five per-port maps hold the same (node, port) pairs
SamePairs(m) ==
  /\ Keys2(m.node_id_to_port_id_to_port_state_) =
       Keys2(m.node_id_to_port_id_to_time_last_changed_)
  /\ Keys2(m.node_id_to_port_id_to_port_state_) =
       Keys2(m.node_id_to_port_id_to_port_config_)
  /\ Keys2(m.node_id_to_port_id_to_port_state_) =
       Keys2(m.node_id_to_port_id_to_singleton_port_key_)
  /\ Keys2(m.node_id_to_port_id_to_port_state_) =
       Keys2(m.node_id_to_port_id_to_sdk_port_id_)

\* unit_to_node_id_ and node_id_to_unit_ are inverse to each other
UnitsInverse(m) ==
  /\ \A u \in DOMAIN m.unit_to_node_id_ :
       /\ m.unit_to_node_id_[u] \in DOMAIN m.node_id_to_unit_
       /\ m.node_id_to_unit_[m.unit_to_node_id_[u]] = u
  /\ \A n \in DOMAIN m.node_id_to_unit_ :
       /\ m.node_id_to_unit_[n] \in DOMAIN m.unit_to_node_id_
       /\ m.unit_to_node_id_[m.node_id_to_unit_[n]] = n

\* a generation that is neither partially swapped nor partially cleared
WholeGeneration(m) ==
  /\ ~m.initialized_ => AllMapsEmpty(m)
  /\ SamePairs(m)
  /\ UnitsInverse(m)

\* C14: the steps of PushChassisConfig and VerifyChassisConfig leave
\* chassis_lock alone; every step of ReplayPortsConfig and Shutdown that changes
\* the live generation is taken while the thread holds chassis_lock as writer;
\* with the caller holding the lock as writer across Push, neither Replay nor
\* Shutdown takes a step between the passes of Push that read the live
\* generation and the end of its swap, during which the live generation is
\* what Push read with the assignments done so far; and a thread holding the
\* lock as reader sees a generation that is neither partially swapped nor
\* partially cleared.
C14_LockContract ==
  /\ [][(thr'["pusher"] # thr["pusher"] /\
         thr["pusher"].pc \in {"locked", "verified", "swap"}) =>
          chassis_lock' = chassis_lock]_vars
  /\ [][\A t \in {"replayer", "shutter"} :
          (thr'[t] # thr[t] /\ mgr' # mgr) => chassis_lock.writer = Some(t)]_vars
  /\ [][thr["pusher"].pc = "swap" =>
          (thr'["replayer"] = thr["replayer"] /\ thr'["shutter"] = thr["shutter"])]_vars
  /\ [](thr["pusher"].pc = "swap" =>
          mgr = Partial(thr["pusher"].seen, thr["pusher"].g, SwapOrder,
                        thr["pusher"].k))
  /\ [](\A t \in chassis_lock.readers : WholeGeneration(mgr))

\* a second Push, which adds a port, is in the middle of its swap while
\* Shutdown, having seen the manager initialized, waits for the writer lock and
\* Replay has not started
C14_Witness ==
  /\ thr["pusher"].pc = "swap"
  /\ thr["pusher"].k = 4
  /\ thr["pusher"].seen.initialized_
  /\ ~SamePairs(mgr)
  /\ thr["shutter"].pc = "unlocked"
  /\ thr["replayer"].pc = "idle"

\* C15: whenever no operation is in progress, after any sequence of Push,
\* Replay and Shutdown, the five per-port maps (port state, time last changed,
\* PortConfig, PortKey, SDK port id) hold exactly the same (node_id, port_id)
\* pairs.
C15_PerPortMapsSamePairs == last.op = "none" => SamePairs(mgr)

\* a generation with a port, in which a Replay of a node without ports has
\* created that node's entry in the state map but not in the PortKey map
C15_Witness ==
  /\ last.op = "none"
  /\ mgr.initialized_
  /\ Keys2(mgr.node_id_to_port_id_to_port_config_) # {}
  /\ DOMAIN mgr.node_id_to_port_id_to_port_state_ #
       DOMAIN mgr.node_id_to_port_id_to_singleton_port_key_

\* C16: in every live generation unit_to_node_id_ and node_id_to_unit_ are
\* inverse to each other, and the units are 0..n-1 in the order in which the
\* pushed config declares its n nodes.
C16_UnitsBijective ==
  /\ mgr.initialized_ => UnitsInverse(mgr)
  /\ (Ran("Push") /\ last.status = OK) =>
       /\ DOMAIN mgr.unit_to_node_id_ = 0..(Len(last.config.nodes) - 1)
       /\ \A i \in 1..Len(last.config.nodes) :
            /\ mgr.unit_to_node_id_[i - 1] = last.config.nodes[i].id
            /\ mgr.node_id_to_unit_[last.config.nodes[i].id] = i - 1

\* the last operation was a query about a (node, port) the live generation holds
KnownPort ==
  <<last.request.node_id, last.request.port_id>> \in
    Keys2(last.pre.node_id_to_port_id_to_sdk_port_id_)
\* the state cached for that (node, port)
CachedState ==
  last.pre.node_id_to_port_id_to_port_state_[last.request.node_id][last.request.port_id]

\* C17: on an initialized manager, GetPortState for a known (node, port)
\* returns the cached state when that is not PORT_STATE_UNKNOWN, without a
\* backend call, and otherwise what the one live backend query
\* sde_interface_->GetPortState(unit, sdk_port_id) answers; in both cases the
\* cached states, the timestamps and every other map are left as they were.
C17_GetPortStateCachedOrLive ==
  (Ran("GetPortState") /\ last.pre.initialized_ /\ KnownPort) =>
    /\ mgr = last.pre
    /\ sde = last.pre_sde
    /\ IF CachedState # PORT_STATE_UNKNOWN
       THEN /\ last.calls = << >>
            /\ last.status = OK
            /\ last.value = Some(CachedState)
       ELSE /\ Len(last.calls) = 1
            /\ last.calls[1].op = "GetPortState"
            /\ last.calls[1].unit = last.pre.node_id_to_unit_[last.request.node_id]
            /\ last.calls[1].port =
                 last.pre.node_id_to_port_id_to_sdk_port_id_[last.request.node_id][last.request.port_id]
            /\ IF last.calls[1].ok
               THEN last.status = OK /\ last.value = Some(last.calls[1].args.reports)
               ELSE last.status = ERR_SDE /\ last.value = NullOpt

\* GetPortState for a known port whose cached state is unknown: the backend is
\* asked and reports the port up
C17_Witness ==
  /\ Ran("GetPortState")
  /\ last.pre.initialized_
  /\ KnownPort
  /\ CachedState = PORT_STATE_UNKNOWN
  /\ Len(last.calls) = 1
  /\ last.value = Some(PORT_STATE_UP)

\* the backend port of port np = <<node_id, port_id>> of the live generation
BackendPort(np) ==
  <<mgr.node_id_to_unit_[np[1]], mgr.node_id_to_port_id_to_sdk_port_id_[np[1]][np[2]]>>

\* C18: a port whose cached admin_state is enabled is enabled in the backend
\* (the last admin call on it since its creation was an EnablePort), and a port
\* cached as disabled is not enabled in the backend.
C18_AdminStateMatchesBackend ==
  last.op = "none" =>
    \A np \in Keys2(mgr.node_id_to_port_id_to_port_config_) :
      /\ mgr.node_id_to_port_id_to_port_config_[np[1]][np[2]].admin_state =
           ADMIN_STATE_ENABLED => BackendPort(np) \in sde.enabled
      /\ mgr.node_id_to_port_id_to_port_config_[np[1]][np[2]].admin_state =
           ADMIN_STATE_DISABLED => BackendPort(np) \notin sde.enabled

\* A Push of one port has reached pass 3: the backend resolved the port's
\* PortKey with the first call.  Old is the previous generation's entry for the
\* port ({} when absent); pass 3 starts in the context PassThree, with calls
\* from position 2 on.
OnePortPush ==
  /\ Ran("Push")
  /\ Len(last.config.singleton_ports) = 1
  /\ Len(last.calls) >= 1
  /\ last.calls[1].ok
Old == FindConfigOld(last.pre, Desired.node, Desired.id)
PassThree == [calls |-> <<last.calls[1]>>, sde |-> last.pre_sde]
\* the previous entry is marked broken / is disabled or enabled
OldBroken == Old # {} /\ Value(Old).admin_state = ADMIN_STATE_UNKNOWN
OldHealthy ==
  Old # {} /\ Value(Old).admin_state \in {ADMIN_STATE_ENABLED, ADMIN_STATE_DISABLED}
\* the context after the first k calls of the Push, a DeletePort at position 3
\* included
AfterCalls(k) ==
  [calls |-> SubSeq(last.calls, 1, k),
   sde |-> IF k >= 3 /\ last.calls[3].op = "DeletePort" /\ last.calls[3].ok
           THEN SdeApply(last.pre_sde, "DeletePort", last.calls[3].unit,
                         last.calls[3].port)
           ELSE last.pre_sde]
\* AddPortHelper for the desired port, run in context x
AddOut(x) ==
  AddPortHelper(x, last.F, Desired.node, last.calls[1].unit, last.calls[1].port,
                Desired, NewPortConfig)
\* the Push issued exactly the calls of the helper run r, and returned its status
RanHelper(r) == last.calls = r.x.calls /\ last.status = r.status

\* the cases of pass 3 that do not depend on how a broken port is deleted:
\* without a previous entry the Push runs AddPortHelper only, with no
\* IsValidPort, DeletePort or DisablePort; with a previous entry that is
\* disabled or enabled it runs UpdatePortHelper (an internal error when that
\* entry has no speed), and issues no DeletePort and no AddPort unless the speed
\* changed
AddOrUpdate ==
  /\ Old = {} =>
       /\ RanHelper(AddOut(PassThree))
       /\ \A i \in 1..Len(last.calls) :
            last.calls[i].op \notin {"IsValidPort", "DeletePort", "DisablePort"}
  /\ (OldHealthy /\ ~HasValue(Value(Old).speed_bps)) =>
       last.status = ERR_INTERNAL /\ Len(last.calls) = 1
  /\ (OldHealthy /\ HasValue(Value(Old).speed_bps)) =>
       /\ RanHelper(UpdatePortHelper(PassThree, last.F, Desired.node,
                                     last.calls[1].unit, last.calls[1].port,
                                     Desired, Value(Old)))
       /\ Some(Desired.speed_bps) = Value(Old).speed_bps =>
            \A i \in 1..Len(last.calls) :
              last.calls[i].op \notin {"DeletePort", "AddPort"}

\* C19, as stated: pass 3 of Push runs AddPortHelper only for a port without a
\* previous entry; for a previous entry with admin state unknown it attempts a
\* DeletePort of the SDK port, ignores its status, and runs AddPortHelper; for a
\* previous entry that is disabled or enabled it runs UpdatePortHelper, without
\* delete and add unless the speed changed.
C19_AsStated ==
  OnePortPush =>
    /\ AddOrUpdate
    /\ OldBroken =>
         /\ Len(last.calls) >= 3
         /\ last.calls[3].op = "DeletePort"
         /\ last.calls[3].port = last.calls[1].port
         /\ RanHelper(AddOut(AfterCalls(3)))

\* C19, corrected: as C19, but for a previous entry with admin state unknown the
\* Push first asks the backend IsValidPort for the SDK port; only when the
\* backend knows the port does it issue DeletePort, whose status it ignores;
\* AddPortHelper runs in either case.
C19_PassThreeClassification ==
  OnePortPush =>
    /\ AddOrUpdate
    /\ OldBroken =>
         /\ Len(last.calls) >= 2
         /\ last.calls[2].op = "IsValidPort"
         /\ last.calls[2].port = last.calls[1].port
         /\ IF last.calls[2].ok
            THEN /\ Len(last.calls) >= 3
                 /\ last.calls[3].op = "DeletePort"
                 /\ last.calls[3].port = last.calls[1].port
                 /\ RanHelper(AddOut(AfterCalls(3)))
            ELSE /\ RanHelper(AddOut(AfterCalls(2)))
                 /\ CallsOf("DeletePort") = {}

\* a port whose previous entry is marked broken is pushed; the backend does not
\* know the port, no delete is issued, and the port is added
C19_Witness ==
  /\ OnePortPush
  /\ OldBroken
  /\ ~last.calls[2].ok
  /\ CallsOf("DeletePort") = {}
  /\ CallsOf("AddPort") # {}
  /\ last.status = OK

\* port i of the pushed config names a node the config does not declare
UnknownNode(i) ==
  \A k \in 1..Len(last.config.nodes) :
    last.config.nodes[k].id # last.config.singleton_ports[i].node

\* C20: in a Push every GetPortIdFromPortKey call precedes every call that
\* changes the backend, and such a call is issued only once the SDK port id of
\* every desired port has been resolved; a Push of a config with a port that
\* names an unknown node, or in which a resolution fails, returns that error
\* (invalid-parameter, or the backend's) without any create, delete, disable,
\* enable or setter call, and leaves the manager as it was.
C20_ResolutionPrecedesMutation ==
  Ran("Push") =>
    /\ \A i \in CallsOf("GetPortIdFromPortKey") : \A j \in MutatingCalls : i < j
    /\ MutatingCalls # {} =>
         /\ \A i \in 1..Len(last.config.singleton_ports) : ~UnknownNode(i)
         /\ Cardinality(CallsOf("GetPortIdFromPortKey")) =
              Len(last.config.singleton_ports)
         /\ Resolves
    /\ ((\E i \in 1..Len(last.config.singleton_ports) : UnknownNode(i)) \/ ~Resolves) =>
         /\ MutatingCalls = {}
         /\ sde = last.pre_sde
         /\ mgr = last.pre
         /\ last.status = IF Resolves THEN ERR_INVALID_PARAM ELSE ERR_SDE

\* on a manager that holds port 1, a Push of two ports resolves port 1 and then
\* finds that port 2 names an unknown node
C20_Witness ==
  /\ Ran("Push")
  /\ last.pre.initialized_
  /\ Len(last.config.singleton_ports) = 2
  /\ ~UnknownNode(1) /\ UnknownNode(2)
  /\ Len(last.calls) = 1 /\ last.calls[1].ok
  /\ last.status = ERR_INVALID_PARAM


-----------------------------------------------------------------------------
(* Cleanup of removed ports, control ports and the admin-state table *)

\* the (node, port) pairs of the pushed config
DesiredPairs ==
  {<<last.config.singleton_ports[i].node, last.config.singleton_ports[i].id>> :
     i \in 1..Len(last.config.singleton_ports)}
\* the ports of the previous generation that the pushed config lacks, in the
\* order of the previous generation's PortConfig map
RemovedPorts ==
  SelectSeq(Pairs(last.pre.node_id_to_port_id_to_port_config_),
            LAMBDA p : p \notin DesiredPairs)
\* the position of the last backend call before those of the cleanup pass
BeforeCleanup == Len(last.calls) - Len(RemovedPorts)
\* call i is a DeletePort of the old backend port of the removed port p
DeletesOld(i, p) ==
  /\ last.calls[i].op = "DeletePort"
  /\ last.calls[i].unit = last.pre.node_id_to_unit_[p[1]]
  /\ last.calls[i].port = last.pre.node_id_to_port_id_to_sdk_port_id_[p[1]][p[2]]
\* call i is on the backend port the new generation gives to a desired port
OnDesiredPort(i) ==
  \E p \in DesiredPairs :
    /\ last.calls[i].unit = mgr.node_id_to_unit_[p[1]]
    /\ last.calls[i].port = mgr.node_id_to_port_id_to_sdk_port_id_[p[1]][p[2]]

\* C21: in a successful Push the backend calls end with one DeletePort for each
\* port of the previous generation that the desired config lacks, issued with
\* the previous generation's unit and SDK port id of that port; exactly one
\* DeletePort of the Push names that backend port; every call of the first
\* three passes comes before these deletes, and every DeletePort among them is
\* for a port the config still desires and is followed by that port's create.
C21_CleanupDeletesRemovedPorts ==
  (Ran("Push") /\ last.status = OK) =>
    /\ BeforeCleanup >= 0
    /\ \A k \in 1..Len(RemovedPorts) :
         /\ DeletesOld(BeforeCleanup + k, RemovedPorts[k])
         /\ Cardinality({i \in CallIds : DeletesOld(i, RemovedPorts[k])}) = 1
    /\ \A i \in 1..BeforeCleanup :
         last.calls[i].op = "DeletePort" =>
           /\ OnDesiredPort(i)
           /\ i < BeforeCleanup /\ last.calls[i + 1].op = "AddPort"

\* A successful Push that adds a port and removes another, whose old unit and
\* SDK port id both differ from the ones the new generation would give it.
C21_Witness ==
  /\ Ran("Push") /\ last.status = OK
  /\ Len(RemovedPorts) = 1
  /\ BeforeCleanup > 0
  /\ \E i \in 1..BeforeCleanup : last.calls[i].op = "AddPort"
  /\ last.pre.node_id_to_unit_[RemovedPorts[1][1]] #
       mgr.node_id_to_unit_[RemovedPorts[1][1]]

\* a successful Push of one port that had no previous entry
AddedPort == OnePortPush /\ last.status = OK /\ Old = {}
\* the creates the Push issued, in order
Creates == SelectSeq(last.calls, LAMBDA c : c.op = "AddPort")

\* C22: a Push that adds a port whose control_port name is set issues, after
\* the data port's create, a second create at SDK port id kSdkPortControlBase +
\* sdk_port_id with the tap port type and the host packet direction; a Push that
\* adds a port without a control_port name issues exactly one create.
C22_ControlPortCreated ==
  AddedPort =>
    IF Desired.config_params.control_port # ""
    THEN /\ Len(Creates) = 2
         /\ Creates[2].unit = last.calls[1].unit
         /\ Creates[2].port = kSdkPortControlBase + last.calls[1].port
         /\ Creates[2].args.params.port_type = PORT_TYPE_TAP
         /\ Creates[2].args.params.packet_dir = kDefaultPortPacketDirection
    ELSE Len(Creates) = 1

\* an update of a healthy port with the speed and the FEC mode unchanged and a
\* desired admin state of enabled or disabled, whose setter calls all succeeded
AdminUpdate ==
  /\ UpdateRan
  /\ Some(Desired.speed_bps) = OldConfig.speed_bps
  /\ Some(Desired.config_params.fec_mode) = OldConfig.fec_mode
  /\ Desired.config_params.admin_state \in {ADMIN_STATE_ENABLED, ADMIN_STATE_DISABLED}
  /\ \A i \in CallsOf("SetPortAutonegPolicy") \cup CallsOf("SetPortLoopbackMode") :
       last.calls[i].ok
\* the desired MTU, autoneg policy or loopback mode differs from the old config's
FieldsChanged ==
  \/ Some(Desired.config_params.mtu) # OldConfig.mtu
  \/ Some(Desired.config_params.autoneg) # OldConfig.autoneg
  \/ Some(Desired.config_params.loopback_mode) # OldConfig.loopback_mode
\* the admin state the manager holds for the desired port after the operation
NewAdminState ==
  mgr.node_id_to_port_id_to_port_config_[Desired.node][Desired.id].admin_state

\* C23: in an update with unchanged speed and FEC and a desired admin state of
\* enabled or disabled, one DisablePort is issued when the old admin state is
\* enabled and either disabled is desired, or enabled is desired and the MTU,
\* autoneg or loopback mode changed; no DisablePort is issued otherwise (so none
\* for enabled -> enabled without a field change); and after a successful
\* update the cached admin state is the desired one.
C23_DisableSideOfAdminTable ==
  AdminUpdate =>
    /\ Cardinality(CallsOf("DisablePort")) =
         IF \/ /\ Desired.config_params.admin_state = ADMIN_STATE_DISABLED
               /\ OldConfig.admin_state = ADMIN_STATE_ENABLED
            \/ /\ Desired.config_params.admin_state = ADMIN_STATE_ENABLED
               /\ OldConfig.admin_state = ADMIN_STATE_ENABLED
               /\ FieldsChanged
         THEN 1 ELSE 0
    /\ \A i \in CallsOf("DisablePort") :
         /\ last.calls[i].unit = last.calls[1].unit
         /\ last.calls[i].port = last.calls[1].port
    /\ last.status = OK => NewAdminState = Desired.config_params.admin_state

\* an enabled port is pushed enabled again with another autoneg policy: the
\* setter, then one DisablePort, and the port is cached as enabled
C23_Witness ==
  /\ AdminUpdate
  /\ OldConfig.admin_state = ADMIN_STATE_ENABLED
  /\ Desired.config_params.admin_state = ADMIN_STATE_ENABLED
  /\ Some(Desired.config_params.autoneg) # OldConfig.autoneg
  /\ Some(Desired.config_params.mtu) = OldConfig.mtu
  /\ Cardinality(CallsOf("DisablePort")) = 1
  /\ last.status = OK
  /\ NewAdminState = ADMIN_STATE_ENABLED

\* need_disable and need_enable as C24 states them
StatedNeedDisable ==
  \/ /\ Desired.config_params.admin_state = ADMIN_STATE_DISABLED
     /\ OldConfig.admin_state = ADMIN_STATE_ENABLED
  \/ /\ Desired.config_params.admin_state = ADMIN_STATE_ENABLED
     /\ FieldsChanged
     /\ OldConfig.admin_state = ADMIN_STATE_ENABLED
StatedNeedEnable ==
  \/ StatedNeedDisable
  \/ /\ Desired.config_params.admin_state = ADMIN_STATE_ENABLED
     /\ OldConfig.admin_state = ADMIN_STATE_DISABLED

\* C24: in an update with unchanged speed and FEC, for every combination of
\* desired admin state, old admin state and config_changed, the enable step is
\* performed (one EnablePort on the port's SDK port, after the DisablePort if
\* any) and the resulting config is marked enabled exactly when need_enable
\* holds, where need_enable = need_disable or (enabled requested and old
\* disabled).
C24_NeedEnableFormula ==
  (AdminUpdate /\ AllCallsOk) =>
    /\ OpsFrom(3, {"DisablePort", "EnablePort"}) =
         (IF StatedNeedDisable THEN <<"DisablePort">> ELSE << >>)
         \o (IF StatedNeedEnable THEN <<"EnablePort">> ELSE << >>)
    /\ NewAdminState = ADMIN_STATE_ENABLED <=> StatedNeedEnable

\* the Push of one port ran AddPortHelper on a port without a previous entry,
\* or UpdatePortHelper on a healthy port that the backend reports valid
HelperRan == (OnePortPush /\ Old = {}) \/ UpdateRan

\* C25: AddPortHelper or UpdatePortHelper invoked with a desired admin state
\* of unknown returns invalid-parameter, and with diag returns unimplemented,
\* in both cases without having issued a call that changes the backend, also
\* when the request changes the speed.
C25_InvalidAdminRejectedFirst ==
  HelperRan =>
    /\ Desired.config_params.admin_state = ADMIN_STATE_UNKNOWN =>
         last.status = ERR_INVALID_PARAM /\ MutatingCalls = {} /\ sde = last.pre_sde
    /\ Desired.config_params.admin_state = ADMIN_STATE_DIAG =>
         last.status = ERR_UNIMPLEMENTED /\ MutatingCalls = {} /\ sde = last.pre_sde

\* C26: after ReplayPortsConfig returns, every port of the node whose replay
\* failed (no speed or FEC recorded, or a failed create, autoneg or loopback
\* call) is cached with admin state unknown, which is what makes the next Push
\* delete and re-add it instead of updating it.
C26_FailedReplayMarksBroken ==
  ReplayedNode =>
    \A p \in NodePorts :
      last.per_port[p] # OK =>
        mgr.node_id_to_port_id_to_port_config_[last.node_id][p].admin_state =
          ADMIN_STATE_UNKNOWN

\* the maps ReplayPortsConfig writes to: port states, timestamps, PortConfigs
ReplayedMaps(m) ==
  <<m.node_id_to_port_id_to_port_state_, m.node_id_to_port_id_to_time_last_changed_,
    m.node_id_to_port_id_to_port_config_>>
\* map new holds the (node, port) pairs of map old, and for every other node
\* than the replayed one the entries of old
SameStructure(old, new) ==
  /\ Keys2(new) = Keys2(old)
  /\ \A n \in DOMAIN old : n # last.node_id => (n \in DOMAIN new /\ new[n] = old[n])

\* C27: ReplayPortsConfig leaves unit_to_node_id_, node_id_to_unit_, the PortKey
\* map and the two SDK port id maps as they were, adds no (node, port) entry to
\* a map and removes none, leaves the entries of the other nodes as they were,
\* and sets every cached port state of the node to unknown and every
\* timestamp of the node to the epoch; on a manager that is not initialized or
\* for an unknown node it returns an error, issues no backend call and changes
\* nothing.
C27_ReplayPreservesStructure ==
  Ran("Replay") =>
    /\ mgr.initialized_ = last.pre.initialized_
    /\ mgr.unit_to_node_id_ = last.pre.unit_to_node_id_
    /\ mgr.node_id_to_unit_ = last.pre.node_id_to_unit_
    /\ mgr.node_id_to_port_id_to_singleton_port_key_ =
         last.pre.node_id_to_port_id_to_singleton_port_key_
    /\ mgr.node_id_to_port_id_to_sdk_port_id_ = last.pre.node_id_to_port_id_to_sdk_port_id_
    /\ mgr.node_id_to_sdk_port_id_to_port_id_ = last.pre.node_id_to_sdk_port_id_to_port_id_
    /\ \A k \in 1..3 : SameStructure(ReplayedMaps(last.pre)[k], ReplayedMaps(mgr)[k])
    /\ ReplayedNode =>
         /\ \A p \in DOMAIN mgr.node_id_to_port_id_to_port_state_[last.node_id] :
              mgr.node_id_to_port_id_to_port_state_[last.node_id][p] = PORT_STATE_UNKNOWN
         /\ \A p \in DOMAIN mgr.node_id_to_port_id_to_time_last_changed_[last.node_id] :
              mgr.node_id_to_port_id_to_time_last_changed_[last.node_id][p] = UnixEpoch
    /\ ~ReplayedNode =>
         /\ last.status # OK
         /\ last.calls = << >>
         /\ mgr = last.pre /\ sde = last.pre_sde

\* a manager holds a port on each of two nodes; the replay of node 1 fails at
\* the create, which changes that port's PortConfig and nothing of node 2
C27_Witness ==
  /\ ReplayedNode
  /\ last.node_id = 1
  /\ Cardinality(Keys2(last.pre.node_id_to_port_id_to_port_config_)) = 2
  /\ 2 \in DOMAIN last.pre.node_id_to_port_id_to_port_config_
  /\ last.status # OK
  /\ mgr.node_id_to_port_id_to_port_config_[1] #
       last.pre.node_id_to_port_id_to_port_config_[1]

\* the config handed to the operation is well-formed
WellFormedNodes ==
  /\ Len(last.config.nodes) >= 1
  /\ \A i \in 1..Len(last.config.nodes) :
       /\ last.config.nodes[i].id > 0
       /\ \A j \in 1..Len(last.config.nodes) :
            i # j => last.config.nodes[i].id # last.config.nodes[j].id
WellFormedPort(i) ==
  LET ports == last.config.singleton_ports IN
  /\ ports[i].slot > 0 /\ ports[i].port > 0 /\ ports[i].speed_bps > 0
  /\ ports[i].id # kCpuPortId
  /\ \E k \in 1..Len(last.config.nodes) : last.config.nodes[k].id = ports[i].node
  /\ \A j \in 1..Len(ports) :
       i # j =>
         /\ <<ports[i].slot, ports[i].port, ports[i].channel>> #
              <<ports[j].slot, ports[j].port, ports[j].channel>>
         /\ ports[i].node = ports[j].node => ports[i].id # ports[j].id
\* the backend resolved the PortKey of port i during the operation
ResolvedPort(i) ==
  LET ports == last.config.singleton_ports IN
  \E k \in CallsOf("GetPortIdFromPortKey") :
    /\ last.calls[k].ok
    /\ last.calls[k].args.port_key = <<ports[i].slot, ports[i].port, ports[i].channel>>

\* C28: whenever VerifyChassisConfig returns OK, the config has no trunk ports
\* and no port groups, at least one node, a recognized platform, node ids that
\* are positive and pairwise distinct, and every singleton port has a positive
\* slot, port and speed, an id other than the CPU port id, a node the config
\* declares, a PortKey no other port has, an id no other port of its node has,
\* and a PortKey that the backend resolved.
C28_VerifyOkImpliesWellFormed ==
  (Ran("Verify") /\ last.status = OK) =>
    /\ last.config.trunk_ports_size = 0
    /\ last.config.port_groups_size = 0
    /\ last.config.has_chassis
    /\ last.config.platform \in
         {PLT_GENERIC_BAREFOOT_TOFINO, PLT_GENERIC_BAREFOOT_TOFINO2, PLT_P4_SOFT_SWITCH}
    /\ WellFormedNodes
    /\ \A i \in 1..Len(last.config.singleton_ports) :
         WellFormedPort(i) /\ ResolvedPort(i)

\* Verify accepts the config with two nodes and a port on each, on a manager
\* that already holds that layout
C28_Witness ==
  /\ Ran("Verify") /\ last.status = OK
  /\ last.pre.initialized_
  /\ Len(last.config.nodes) = 2
  /\ Len(last.config.singleton_ports) = 2
  /\ Len(last.calls) = 2

\* the pipeline name the desired port asks for, the default when it sets none
WantedPipeline ==
  IF Desired.config_params.pipeline_name # "" THEN Desired.config_params.pipeline_name
  ELSE kDefaultPipelineName

\* C29: after a successful AddPortHelper for a new port, the pipeline name in
\* the stored PortConfig and the one passed to the backend's create are both
\* the desired port's pipeline name when that is set, and the default pipeline
\* name when it is not.
C29_PipelineNameDefaulting ==
  AddedPort =>
    /\ mgr.node_id_to_port_id_to_port_config_[Desired.node][Desired.id].pipeline_name =
         WantedPipeline
    /\ Len(Creates) >= 1
    /\ Creates[1].args.params.pipeline_name = WantedPipeline

\* the backend ports of the ports that the live generation holds with an admin
\* state other than unknown
CachedPorts ==
  {BackendPort(np) :
     np \in {k \in Keys2(mgr.node_id_to_port_id_to_port_config_) :
               mgr.node_id_to_port_id_to_port_config_[k[1]][k[2]].admin_state #
                 ADMIN_STATE_UNKNOWN}}

\* C30: after any sequence of Push operations, successful or failed, whenever
\* the manager is initialized and no operation is in progress, the ports
\* that exist in the backend are exactly the ports for which the live
\* generation holds a PortConfig with an admin state other than unknown; and a
\* failed Push leaves the backend's set of ports as it was before that Push.
C30_CacheAndBackendAgree ==
  /\ (last.op = "none" /\ mgr.initialized_) => sde.ports = CachedPorts
  /\ (Ran("Push") /\ last.status # OK) => sde.ports = last.pre_sde.ports


-----------------------------------------------------------------------------
(* Backend identifiers, verified pushes and the emptiness of a manager that is
   not initialized *)

\* the SDK port ids the previous generation holds for the ports of the replayed node
ReplayedSdkPorts ==
  {last.pre.node_id_to_port_id_to_sdk_port_id_[last.node_id][p] : p \in NodePorts}

\* C31: every backend call that Push issues for a desired data port (create,
\* existence check, disable, delete, set-autoneg, set-loopback) names the SDK
\* port id that the backend resolved from the port's PortKey, and every call
\* that Replay issues names the SDK port id recorded for a port of the node, so
\* that the port created is the port later deleted, updated or replayed, also
\* when the port's id differs from its SDK port id.
C31_OneBackendIdentifier ==
  /\ OnePortPush =>
       /\ \A i \in CallIds \ (CallsOf("GetPortIdFromPortKey") \cup CallsOf("DeletePort")) :
            last.calls[i].port = last.calls[1].port
       /\ last.status = OK =>
            \A i \in 2..BeforeCleanup : last.calls[i].port = last.calls[1].port
  /\ ReplayedNode =>
       \A i \in CallIds :
         /\ last.calls[i].unit = last.pre.node_id_to_unit_[last.node_id]
         /\ last.calls[i].port \in ReplayedSdkPorts

\* the Push ran on an initialized manager and succeeded, and VerifyChassisConfig
\* of the same config, called just before it with the backend resolving every
\* PortKey, returned OK
VerifiedPush ==
  /\ Ran("Push") /\ last.status = OK
  /\ last.pre.initialized_
  /\ VerifyChassisConfig(last.pre, last.pre_sde, last.config, {}).status = OK

\* C32: on an initialized manager, a Push that succeeds for a config that
\* VerifyChassisConfig accepted commits the unit_to_node_id_, node_id_to_unit_
\* and PortKey maps of the previous generation, treats no port as new, issues
\* no DeletePort in the cleanup pass (the previous generation holds no port
\* that the config lacks, and every DeletePort of the Push is the one that
\* pass 3 issues before a create), and gives every node the unit that Verify
\* computed for it.
C32_VerifiedPushKeepsLayout ==
  VerifiedPush =>
    /\ mgr.unit_to_node_id_ = last.pre.unit_to_node_id_
    /\ mgr.node_id_to_unit_ = last.pre.node_id_to_unit_
    /\ mgr.node_id_to_port_id_to_singleton_port_key_ =
         last.pre.node_id_to_port_id_to_singleton_port_key_
    /\ \A p \in DesiredPairs : FindConfigOld(last.pre, p[1], p[2]) # {}
    /\ RemovedPorts = << >>
    /\ \A i \in CallsOf("DeletePort") :
         i < Len(last.calls) /\ last.calls[i + 1].op = "AddPort"
    /\ \A i \in 1..Len(last.config.nodes) :
         mgr.node_id_to_unit_[last.config.nodes[i].id] =
           Max({k \in 1..Len(last.config.nodes) :
                  last.config.nodes[k].id = last.config.nodes[i].id}) - 1

\* a verified Push of two nodes with a port, onto a manager that holds that
\* layout with the port marked broken by a failed replay: the port is deleted
\* and added again, the layout stays
C32_Witness ==
  /\ VerifiedPush
  /\ Len(last.config.nodes) = 2
  /\ Len(last.config.singleton_ports) = 1
  /\ OldBroken
  /\ CallsOf("AddPort") # {}

\* C33: whenever no operation is in progress, after any sequence of Push
\* (successful or failed), Replay and Shutdown, a manager that is not
\* initialized has every live map empty: unit_to_node_id_, node_id_to_unit_,
\* the port state, timestamp, PortConfig, PortKey and SDK port id maps and the
\* reverse SDK port id map.
C33_UninitializedMeansEmpty ==
  (last.op = "none" /\ ~mgr.initialized_) => AllMapsEmpty(mgr)

\* a manager that held ports has been shut down, and a Push onto it has then
\* failed after creating a port in the backend
C33_Witness ==
  /\ last.op = "none"
  /\ ~mgr.initialized_
  /\ hist = "shut_push_failed"
  /\ sde.ports # {}
  /\ AllMapsEmpty(mgr)

\* the PortConfig entries of the live generation whose admin state is enabled
\* or disabled
HealthyEntries ==
  {np \in Keys2(mgr.node_id_to_port_id_to_port_config_) :
     mgr.node_id_to_port_id_to_port_config_[np[1]][np[2]].admin_state \in
       {ADMIN_STATE_ENABLED, ADMIN_STATE_DISABLED}}

\* C34: in every generation reachable by Push, Replay and Shutdown, with
\* backend calls failing, every cached PortConfig whose admin state is enabled
\* or disabled has a speed and a FEC mode; hence no Push returns the internal
\* error for a previous entry without speed (a Push returns ERR_INTERNAL only
\* when the backend answers IsValidPort negatively), and no port's replay
\* returns the internal error for a missing speed or FEC mode.
C34_HealthyEntriesCarrySpeedAndFec ==
  /\ \A np \in HealthyEntries :
       /\ HasValue(mgr.node_id_to_port_id_to_port_config_[np[1]][np[2]].speed_bps)
       /\ HasValue(mgr.node_id_to_port_id_to_port_config_[np[1]][np[2]].fec_mode)
  /\ (Ran("Push") /\ last.status = ERR_INTERNAL) =>
       /\ last.calls # << >>
       /\ last.calls[Len(last.calls)].op = "IsValidPort"
       /\ ~last.calls[Len(last.calls)].ok
  /\ Ran("Replay") => \A p \in DOMAIN last.per_port : last.per_port[p] # ERR_INTERNAL

\* the replay of an enabled port created it and then failed at a setter: the
\* entry stored for it is disabled, with the speed and FEC mode of the old one
C34_Witness ==
  /\ ReplayedNode
  /\ \E p \in NodePorts :
       /\ CachedConfig(p).admin_state = ADMIN_STATE_ENABLED
       /\ last.per_port[p] = ERR_SDE
       /\ <<last.node_id, p>> \in HealthyEntries
       /\ mgr.node_id_to_port_id_to_port_config_[last.node_id][p].speed_bps =
            CachedConfig(p).speed_bps

=============================================================================
